---- MODULE Spec2Model ----
(***************************************************************************)
(* A model of @clangd/install (src/src/index.ts): the startup triage       *)
(* (prepare), the update check (checkUpdates), the recovery flow           *)
(* (recover), the explicit install (installLatest, Install.install,        *)
(* Install.download), the release resolver (Github.latestRelease,          *)
(* Github.chooseAsset) and the version comparator (namespace Version).     *)
(*                                                                         *)
(* Every async function is a task with a program counter; one action is    *)
(* the code that runs between two awaits (JavaScript runs it atomically).  *)
(* Texts are sequences of tokens, paths are sequences of segments,         *)
(* version texts are given by their syntax (numeric components and         *)
(* prerelease identifiers), and the semver library calls are modelled by   *)
(* the algorithms of semver 7 (Range, satisfies, minVersion, gtr).         *)
(***************************************************************************)
EXTENDS Integers, Sequences, FiniteSets, TLC

(***************************************************************************)
(* Bounds of the model.                                                    *)
(***************************************************************************)
\* Version components range over 0..MaxComp.
MaxComp == 2
\* The host calls installLatest at most MaxRuns times, one call after another.
MaxRuns == 2
\* A release lists at most MaxAssets assets.
MaxAssets == 3

(***************************************************************************)
(* Generic helpers on sequences.                                           *)
(***************************************************************************)
Range(s) == {s[i] : i \in DOMAIN s}

\* Index of the first element of s satisfying P, 0 when there is none
\* (Array.prototype.find / findIndex, String.prototype.indexOf).
FirstIndex(s, P(_)) ==
  IF \E i \in DOMAIN s : P(s[i])
  THEN CHOOSE i \in DOMAIN s : P(s[i]) /\ \A j \in 1..(i - 1) : ~P(s[j])
  ELSE 0

\* s is a prefix of t.
IsPrefix(s, t) == Len(s) <= Len(t) /\ SubSeq(t, 1, Len(s)) = s

\* sub occurs in s as a contiguous run of tokens (String.prototype.indexOf >= 0).
Contains(s, sub) ==
  \E i \in 0..(Len(s) - Len(sub)) : SubSeq(s, i + 1, i + Len(sub)) = sub

(***************************************************************************)
(* semver: versions, comparators and ranges.                               *)
(*                                                                         *)
(* A version text is given by its syntax: nums, the dotted numeric         *)
(* components; pre, the prerelease identifiers after them (<<>> when       *)
(* there are none; identifiers are given by their rank in semver's         *)
(* identifier order); word, whether the text holds anything else, which    *)
(* makes it no version at all ("snapshot_20200101"); glued, whether the    *)
(* prerelease follows the components without a hyphen ("15.0.0git"), which *)
(* only the loose grammar accepts.                                         *)
(***************************************************************************)
\* The prerelease identifiers: "0", the least, and a word such as "rc1" or
\* "4ubuntu1" (a word is greater than a number).
NumericPre == <<0>>
WordPre == <<1>>
PreIds == {NumericPre, WordPre}

VerText(nums, pre, word) ==
  [nums |-> nums, pre |-> pre, word |-> word, glued |-> FALSE]
GluedText(nums, pre) == [VerText(nums, pre, FALSE) EXCEPT !.glued = TRUE]

\* A concrete version (class SemVer).
SemVer(M, m, p, pre) == [major |-> M, minor |-> m, patch |-> p, prerelease |-> pre]

Sign(n) == IF n > 0 THEN 1 ELSE IF n < 0 THEN -1 ELSE 0

\* SemVer.comparePre: a version without prerelease is greater than one with.
comparePre(a, b) ==
  IF a = <<>> /\ b = <<>> THEN 0
  ELSE IF a = <<>> THEN 1
  ELSE IF b = <<>> THEN -1
  ELSE Sign(a[1] - b[1])

\* SemVer.compare: compareMain, then comparePre.
compare(a, b) ==
  IF a.major # b.major THEN Sign(a.major - b.major)
  ELSE IF a.minor # b.minor THEN Sign(a.minor - b.minor)
  ELSE IF a.patch # b.patch THEN Sign(a.patch - b.patch)
  ELSE comparePre(a.prerelease, b.prerelease)

gt(a, b) == compare(a, b) > 0
lt(a, b) == compare(a, b) < 0
lte(a, b) == compare(a, b) <= 0
gte(a, b) == compare(a, b) >= 0

\* A comparator: an operator and a version; any is the comparator "" (ANY).
Comparator(op, v) == [operator |-> op, semver |-> v, any |-> FALSE]
AnyComparator == [operator |-> "", semver |-> SemVer(0, 0, 0, <<>>), any |-> TRUE]

\* semver.validRange(text, loose) is not null: the text parses as a range.
\* A partial version (at most three components) is an X-range; a prerelease
\* may only follow a full version.
validRange(t) ==
  /\ ~t.word
  /\ Len(t.nums) <= 3
  /\ (t.pre # <<>> => Len(t.nums) = 3)

\* new semver.Range(text, loose), for a text that validRange accepts: the
\* comparators of the range ("10" is >=10.0.0 <11.0.0-0, "10.0" is >=10.0.0
\* <10.1.0-0, "10.0.1" is the exact version, "" is any version).
parseRange(t) ==
  CASE Len(t.nums) = 0 -> <<AnyComparator>>
    [] Len(t.nums) = 1 ->
         <<Comparator(">=", SemVer(t.nums[1], 0, 0, <<>>)),
           Comparator("<", SemVer(t.nums[1] + 1, 0, 0, NumericPre))>>
    [] Len(t.nums) = 2 ->
         <<Comparator(">=", SemVer(t.nums[1], t.nums[2], 0, <<>>)),
           Comparator("<", SemVer(t.nums[1], t.nums[2] + 1, 0, NumericPre))>>
    [] OTHER ->
         <<Comparator("", SemVer(t.nums[1], t.nums[2], t.nums[3], t.pre))>>

\* Comparator.test.
testComparator(c, v) ==
  \/ c.any
  \/ CASE c.operator = "" -> compare(v, c.semver) = 0
       [] c.operator = ">=" -> gte(v, c.semver)
       [] c.operator = "<" -> lt(v, c.semver)
       [] OTHER -> FALSE

\* Range.test / testSet: every comparator accepts the version, and a
\* prerelease version is accepted only when some comparator names a
\* prerelease of the same major.minor.patch.
satisfies(v, set) ==
  /\ \A i \in DOMAIN set : testComparator(set[i], v)
  /\ v.prerelease # <<>> =>
       \E i \in DOMAIN set :
         /\ ~set[i].any
         /\ set[i].semver.prerelease # <<>>
         /\ set[i].semver.major = v.major
         /\ set[i].semver.minor = v.minor
         /\ set[i].semver.patch = v.patch

\* The result of a computation that may be null.
Null == [isNull |-> TRUE]
Some(v) == [isNull |-> FALSE, value |-> v]

\* The greatest (least) comparator of a set, as the loops of minVersion and
\* outside find it: the first one is kept unless a later one is strictly
\* greater (less).
RECURSIVE HighOf(_, _, _)
HighOf(set, i, high) ==
  IF i > Len(set) THEN high
  ELSE HighOf(set, i + 1, IF gt(set[i].semver, high.semver) THEN set[i] ELSE high)

RECURSIVE LowOf(_, _, _, _)
LowOf(set, i, high, low) ==
  IF i > Len(set) THEN low
  ELSE IF gt(set[i].semver, high.semver) THEN LowOf(set, i + 1, set[i], low)
  ELSE IF lt(set[i].semver, low.semver) THEN LowOf(set, i + 1, high, set[i])
  ELSE LowOf(set, i + 1, high, low)

\* semver.minVersion(range): 0.0.0 or 0.0.0-0 when the range accepts it, else
\* the greatest version of the comparators '' and '>=', when the range
\* accepts it; null otherwise.
minVersion(set) ==
  IF satisfies(SemVer(0, 0, 0, <<>>), set) THEN Some(SemVer(0, 0, 0, <<>>))
  ELSE IF satisfies(SemVer(0, 0, 0, NumericPre), set)
    THEN Some(SemVer(0, 0, 0, NumericPre))
  ELSE
    LET lower == SelectSeq(set, LAMBDA c : c.operator \in {"", ">="})
    IN IF lower = <<>> THEN Null
       ELSE LET setMin == HighOf(lower, 1, lower[1]).semver
            IN IF satisfies(setMin, set) THEN Some(setMin) ELSE Null

\* The comparator ANY counts as >=0.0.0 in outside().
AsLowerBound(c) == IF c.any THEN Comparator(">=", SemVer(0, 0, 0, <<>>)) ELSE c

\* semver.gtr(version, range) = outside(version, range, '>'): the version is
\* greater than every version the range accepts.
gtr(v, range) ==
  IF satisfies(v, range) THEN FALSE
  ELSE
    LET set == [i \in DOMAIN range |-> AsLowerBound(range[i])]
        high == HighOf(set, 1, set[1])
        low == LowOf(set, 1, set[1], set[1])
    IN IF high.operator \in {">", ">="} THEN FALSE
       ELSE IF low.operator \in {"", ">"} /\ lte(v, low.semver) THEN FALSE
       ELSE IF low.operator = ">=" /\ lt(v, low.semver) THEN FALSE
       ELSE TRUE

(***************************************************************************)
(* namespace Version.                                                      *)
(***************************************************************************)
\* The outcome of a function that returns a value or throws an error.
Ok(v) == [ok |-> TRUE, value |-> v, error |-> "none"]
Threw(e) == [ok |-> FALSE, value |-> "none", error |-> e]

\* new semver.Range(text, loose): throws on a text that is no range.
newRange(t) ==
  IF validRange(t) THEN Ok([raw |-> t, set |-> parseRange(t), loose |-> TRUE])
  ELSE Threw("Invalid SemVer Range")

\* new semver.Range(range, options) for a Range object parsed with other
\* options: the raw text is parsed again.  minVersion and gtr are called
\* without options, so they parse the text of a loose range strictly, and
\* the strict grammar has no prerelease without hyphen.
strictRange(range) ==
  IF range.loose /\ range.raw.glued THEN Threw("Invalid comparator")
  ELSE Ok(range)

\* Version.rangeGreater(newVer, oldVer).
rangeGreater(newVer, oldVer) ==
  LET strictNew == strictRange(newVer)
      strictOld == strictRange(oldVer)
  IN IF ~strictNew.ok THEN strictNew
     ELSE LET min == minVersion(newVer.set)
          IN IF min.isNull THEN Threw("Couldn't parse version range")
             ELSE IF ~strictOld.ok THEN strictOld
             ELSE Ok(gtr(min.value, oldVer.set))

\* Version.released(release): the tag when it is a valid range or the name
\* is not, the name otherwise.
\* A released that takes the display name whenever it is a valid range.
releasedPrefersName(release) ==
  IF validRange(release.name) THEN newRange(release.name)
  ELSE newRange(release.tag_name)

released(release) ==
  IF ~validRange(release.tag_name) /\ validRange(release.name)
  THEN newRange(release.name)
  ELSE newRange(release.tag_name)

(***************************************************************************)
(* Texts.  The output of a command is a sequence of tokens: a word, white  *)
(* space, the character '~', the marker 'clangd version ', or a version    *)
(* text.                                                                   *)
(***************************************************************************)
EmptyText == VerText(<<>>, <<>>, FALSE)
Tok(k, w, v) == [k |-> k, w |-> w, v |-> v]
Word(w) == Tok("word", w, EmptyText)
Space == Tok("ws", " ", EmptyText)
Newline == Tok("ws", "\n", EmptyText)
Tilde == Tok("tilde", "~", EmptyText)
Marker == Tok("marker", "clangd version ", EmptyText)
VerTok(v) == Tok("ver", "", v)

\* String.prototype.trim: drop the white space at both ends.
RECURSIVE TrimLeft(_)
TrimLeft(s) == IF s # <<>> /\ Head(s).k = "ws" THEN TrimLeft(Tail(s)) ELSE s

RECURSIVE TrimRight(_)
TrimRight(s) ==
  IF s # <<>> /\ s[Len(s)].k = "ws" THEN TrimRight(SubSeq(s, 1, Len(s) - 1)) ELSE s

trim(s) == TrimRight(TrimLeft(s))

\* s.split(/\s|~/, 1)[0]: the text before the first white space or '~'.
SplitFirst(s) ==
  LET cut == FirstIndex(s, LAMBDA c : c.k \in {"ws", "tilde"})
  IN IF cut = 0 THEN s ELSE SubSeq(s, 1, cut - 1)

\* The version text a run of tokens spells: nothing is the empty text; a
\* version is itself; a full version directly followed by a word is, read
\* loosely, that version with the word as prerelease ("15.0.0git"); anything
\* else is no version.
TextOf(s) ==
  IF s = <<>> THEN EmptyText
  ELSE IF Len(s) = 1 /\ s[1].k = "ver" THEN s[1].v
  ELSE IF /\ Len(s) = 2 /\ s[1].k = "ver" /\ s[2].k = "word"
          /\ ~s[1].v.word /\ Len(s[1].v.nums) = 3 /\ s[1].v.pre = <<>>
       THEN GluedText(s[1].v.nums, WordPre)
  ELSE VerText(<<>>, <<>>, TRUE)

\* A parser that takes every vendor's version as comparable.
installedAnyVendor(output) ==
  LET pos == FirstIndex(output, LAMBDA c : c.k = "marker")
  IN IF pos = 0 THEN Threw("Couldn't parse clangd --version output")
     ELSE newRange(TextOf(SplitFirst(SubSeq(output, pos + 1, Len(output)))))

\* Version.installed, after `run` has returned the output of
\* `clangd --version`.
installed(output) ==
  LET pos == FirstIndex(output, LAMBDA c : c.k = "marker")
  IN IF pos = 0 THEN Threw("Couldn't parse clangd --version output")
     ELSE IF pos > 1 /\ trim(SubSeq(output, 1, pos - 1)) = <<Word("Apple")>>
       THEN Threw("Cannot compare vendor's clangd version")
     ELSE newRange(TextOf(SplitFirst(SubSeq(output, pos + 1, Len(output)))))

\* Version.upgrade, given the output of the installed binary: both versions,
\* then the comparison; the first failure is the one thrown.
upgrade(release, output) ==
  LET releasedVer == released(release)
      installedVer == installed(output)
  IN IF ~releasedVer.ok THEN releasedVer
     ELSE IF ~installedVer.ok THEN installedVer
     ELSE LET greater == rangeGreater(releasedVer.value, installedVer.value)
          IN IF ~greater.ok THEN greater
             ELSE Ok([old |-> installedVer.value.raw,
                      new |-> releasedVer.value.raw,
                      upgrade |-> greater.value])

\* The words of a glibc probe that hold "glibc" in some letter case.
GlibcWords == {"GLIBC", "glibc", "(Debian GLIBC", "(Ubuntu EGLIBC"}

\* output.split('\n', 1)[0]: the first line.
FirstLine(output) ==
  LET nl == FirstIndex(output, LAMBDA c : c = Newline)
  IN IF nl = 0 THEN output ELSE SubSeq(output, 1, nl - 1)

\* line.match(/^ldd .*glibc.* (\d+(?:\.\d+)+)[^ ]*$/i): the line starts with
\* "ldd ", its last blank is followed by a dotted number of at least two
\* components, and "glibc" occurs between the two.  The result is the number
\* matched (without what follows it in the same word), or null.
MatchLdd(line) ==
  LET blanks == {i \in DOMAIN line : line[i] = Space}
      last == CHOOSE i \in blanks : \A j \in blanks : j <= i
  IN IF /\ Len(line) >= 2 /\ line[1] = Word("ldd") /\ line[2] = Space
        /\ last > 2 /\ last < Len(line)
        /\ \E i \in 3..(last - 1) : line[i].k = "word" /\ line[i].w \in GlibcWords
        /\ line[last + 1].k = "ver"
        /\ ~line[last + 1].v.word
        /\ Len(line[last + 1].v.nums) >= 2
     THEN Some(VerText(line[last + 1].v.nums, <<>>, FALSE))
     ELSE Null

\* An oldGlibc that returns every detected version that is not newer than min.
oldGlibcNotNewer(min, output) ==
  LET match == MatchLdd(FirstLine(output))
  IN IF match.isNull \/ ~validRange(match.value) THEN Ok(Null)
     ELSE LET version == newRange(match.value).value
              newer == rangeGreater(version, min)
          IN IF ~newer.ok THEN newer
             ELSE IF ~newer.value THEN Ok(Some(version)) ELSE Ok(Null)

\* Version.oldGlibc(min), after `run` has returned the output of
\* `ldd --version`: the detected version when it is older than min, else null.
oldGlibc(min, output) ==
  LET match == MatchLdd(FirstLine(output))
  IN IF match.isNull \/ ~validRange(match.value) THEN Ok(Null)
     ELSE LET version == newRange(match.value).value
              older == rangeGreater(min, version)
          IN IF ~older.ok THEN older
             ELSE IF older.value THEN Ok(Some(version)) ELSE Ok(Null)

(***************************************************************************)
(* namespace Github.                                                       *)
(***************************************************************************)
\* The keyword of a platform (the table `variants`); "" when it has none.
variants(platform) ==
  CASE platform = "win32" -> "windows"
    [] platform = "linux" -> "linux"
    [] platform = "darwin" -> "mac"
    [] OTHER -> ""

\* new semver.Range('2.18') in chooseAsset.
minGlibc == [newRange(VerText(<<2, 18>>, <<>>, FALSE)).value EXCEPT !.loose = FALSE]

\* The message of chooseAsset's last statement, which names os.platform()
\* and os.arch() (the release's name, which it also holds, is left out).
noBinary(platform, arch) ==
  "No clangd binary available for " \o platform \o "/" \o arch

\* A chooseAsset that takes any asset naming the platform's keyword.
selectAssetByKeyword(release, platform, arch) ==
  LET variant == variants(platform)
      found == FirstIndex(release.assets, LAMBDA a : Contains(a.name, <<variant>>))
  IN IF /\ variant # ""
        /\ (arch = "x64" \/ variant = "windows" \/ (arch = "arm64" /\ variant = "mac"))
        /\ found # 0
     THEN Ok(release.assets[found])
     ELSE Threw(noBinary(platform, arch))

\* A chooseAsset that accepts every architecture of a known platform.
selectAssetAnyArch(release, platform, arch) ==
  LET variant == variants(platform)
      substr == <<"clangd-", variant>>
      found == FirstIndex(release.assets, LAMBDA a : Contains(a.name, substr))
  IN IF variant # "" /\ found # 0
     THEN Ok(release.assets[found])
     ELSE Threw(noBinary(platform, arch))

\* The part of chooseAsset that follows the glibc check: the first asset whose
\* name holds 'clangd-' + variant, on a platform and architecture that the
\* release supports.
selectAsset(release, platform, arch) ==
  LET variant == variants(platform)
      substr == <<"clangd-", variant>>
      found == FirstIndex(release.assets, LAMBDA a : Contains(a.name, substr))
  IN IF /\ variant # ""
        /\ (arch = "x64" \/ variant = "windows" \/ (arch = "arm64" /\ variant = "mac"))
        /\ found # 0
     THEN Ok(release.assets[found])
     ELSE Threw(noBinary(platform, arch))

\* Github.chooseAsset(release), given the output of the glibc probe (which is
\* run on Linux only).
chooseAsset(release, platform, arch, lddOutput) ==
  LET old == IF variants(platform) = "linux" THEN oldGlibc(minGlibc, lddOutput)
             ELSE Ok(Null)
  IN IF ~old.ok THEN old
     ELSE IF ~old.value.isNull
       THEN Threw("The clangd release is not compatible with your system")
     ELSE selectAsset(release, platform, arch)

(***************************************************************************)
(* Paths and the file system.  A path is a sequence of segments; an        *)
(* absolute path starts with the root "/".  The file system maps the       *)
(* paths that exist to what is there: a directory, or a file with its      *)
(* content.                                                                *)
(***************************************************************************)
isAbsolute(p) == p # <<>> /\ p[1] = "/"
join(p, q) == p \o SelectSeq(q, LAMBDA seg : seg # "")
basename(p) == IF p = <<>> THEN "" ELSE p[Len(p)]
dirname(p) == IF p = <<>> THEN p ELSE SubSeq(p, 1, Len(p) - 1)

\* The spelling of a text, used where the text names a file or a directory.
RECURSIVE Dotted(_)
Dotted(nums) ==
  IF nums = <<>> THEN ""
  ELSE IF Len(nums) = 1 THEN ToString(nums[1])
  ELSE ToString(nums[1]) \o "." \o Dotted(Tail(nums))

Spell(t) ==
  IF t.word THEN "snapshot"
  ELSE Dotted(t.nums) \o (IF t.pre = <<>> THEN ""
                          ELSE (IF t.glued THEN "" ELSE "-") \o ToString(t.pre[1]))

RECURSIVE Flatten(_)
Flatten(tokens) == IF tokens = <<>> THEN "" ELSE Head(tokens) \o Flatten(Tail(tokens))

Dir == [type |-> "dir", data |-> ""]
File(data) == [type |-> "file", data |-> data]

exists(fs, p) == p \in DOMAIN fs

\* p is root or lies under it.
Under(root, p) == IsPrefix(root, p)

\* The directories from the root down to p.
Ancestors(p) == {SubSeq(p, 1, n) : n \in 1..Len(p)}

\* fs.promises.mkdir(dir, {recursive: true}): dir and its missing parents.
mkdirp(fs, dir) ==
  LET new == Ancestors(dir) \ DOMAIN fs
  IN [p \in DOMAIN fs \cup new |-> IF p \in new THEN Dir ELSE fs[p]]

\* Writing a file, creating the directories above it.
writeFile(fs, p, data) ==
  LET base == mkdirp(fs, dirname(p))
  IN [q \in DOMAIN base \cup {p} |-> IF q = p THEN File(data) ELSE base[q]]

\* unlink, and rimraf: everything at and under the path goes.
remove(fs, root) ==
  [p \in {q \in DOMAIN fs : ~Under(root, q)} |-> fs[p]]

\* The listings of a set of paths: every order in which a directory
\* walk may deliver them.
Orders(S) ==
  {s \in [1..Cardinality(S) -> S] : \A i, j \in DOMAIN s : s[i] = s[j] => i = j}

\* readdirp(root): the files (not the directories) under root, with their
\* base name and full path; the order is the file system's, so every order
\* is a possible listing.  The listing is empty when root does not exist.
readdirp(fs, root) ==
  Orders({p \in DOMAIN fs : Under(root, p) /\ p # root /\ fs[p].type = "file"})

(***************************************************************************)
(* The machine and the network: what the external calls can return.        *)
(***************************************************************************)
installURL == "https://clangd.llvm.org/installation.html"

storagePath == <<"/", "storage">>

\* Binaries outside the storage root, and what `clangd --version` prints.
OldClangd == <<"/", "opt", "clangd5", "clangd">>
NewClangd == <<"/", "opt", "clangd15", "clangd">>
AppleClangd == <<"/", "xcode", "clangd">>
UnversionedClangd == <<"/", "opt", "unversioned", "clangd">>
MissingClangd == <<"/", "missing", "clangd">>
SystemClangd == <<"/", "usr", "bin", "clangd">>

Full(M, m, p) == VerText(<<M, m, p>>, <<>>, FALSE)

\* The paths that fs.promises.access accepts outside the storage root.
Accessible == {OldClangd, NewClangd, AppleClangd, UnversionedClangd, SystemClangd}

\* which(name, {nothrow: true}): the path of a command on the search path,
\* or null.
which(name) == IF name = <<"clangd">> THEN Some(SystemClangd) ELSE Null

\* What ui.clangdPath may be configured to.
ConfiguredPaths ==
  {OldClangd, NewClangd, AppleClangd, UnversionedClangd, MissingClangd,
   <<"clangd">>, <<"clangd-9">>}

\* The binary a command line names: the path itself, or the one on the
\* search path.
Resolve(p) == IF isAbsolute(p) THEN Some(p) ELSE which(p)

\* Version.run(clangdPath, ['--version']): the standard output of the binary;
\* nothing when no binary could be started.  A binary in the storage root is
\* one that install() extracted.
VersionOutput(fs, p) ==
  LET bin == Resolve(p)
  IN IF bin.isNull THEN <<>>
     ELSE CASE bin.value = OldClangd ->
                 <<Marker, VerTok(Full(5, 0, 1)), Space, Word("(release)"), Newline>>
            [] bin.value = NewClangd ->
                 <<Marker, VerTok(Full(15, 0, 0)), Newline>>
            [] bin.value = AppleClangd ->
                 <<Word("Apple"), Space, Marker, VerTok(Full(10, 0, 0)), Space,
                   Word("(clang-1000.11.45.5)"), Newline>>
            [] bin.value = UnversionedClangd ->
                 <<Word("clangd"), Space, Word("unknown"), Newline>>
            [] bin.value = SystemClangd ->
                 <<Word("Ubuntu"), Space, Marker,
                   VerTok(VerText(<<10, 0, 0>>, WordPre, FALSE)), Tilde,
                   Word("18.04.2"), Newline>>
            [] Under(storagePath, bin.value) /\ exists(fs, bin.value)
                 /\ fs[bin.value].type = "file" ->
                 <<Marker, VerTok(Full(10, 0, 0)), Newline>>
            [] OTHER -> <<>>

\* Outputs of `ldd --version`.
LddLine(words, v) == <<Word("ldd"), Space>> \o words \o <<Space, VerTok(v), Newline,
                       Word("Copyright"), Space, VerTok(Full(2, 0, 0)), Newline>>
exactLdd == LddLine(<<Word("(Debian GLIBC"), Space, Word("2.18-9)")>>, VerText(<<2, 18>>, <<>>, FALSE))
oldLdd == LddLine(<<Word("(Debian GLIBC"), Space, Word("2.17-9)")>>, VerText(<<2, 17>>, <<>>, FALSE))
newLdd == LddLine(<<Word("(Debian GLIBC"), Space, Word("2.29-9)")>>, VerText(<<2, 29>>, <<>>, FALSE))
notGlibcLdd == LddLine(<<Word("(musl)")>>, VerText(<<1, 1>>, <<>>, FALSE))

\* The machines: os.platform(), os.arch() and the glibc probe's output (the
\* probe is run on Linux only).
Machine(platform, arch, ldd) == [platform |-> platform, arch |-> arch, ldd |-> ldd]
Machines ==
  {Machine("linux", "x64", l) : l \in {exactLdd, oldLdd, newLdd, notGlibcLdd}}
    \cup {Machine("linux", "arm64", newLdd), Machine("win32", "ia32", <<>>),
          Machine("darwin", "arm64", <<>>), Machine("freebsd", "x64", <<>>)}

\* Releases that the release endpoint may serve.
Asset(name, url) == [name |-> name, browser_download_url |-> url]
AssetFor(keyword) ==
  Asset(<<"clangd-", keyword, "-10.0.0.zip">>, "https://github/" \o keyword)
Release(name, tag, assets) == [name |-> name, tag_name |-> tag, assets |-> assets]

AllAssets == <<Asset(<<"clangd_indexing_tools-", "linux", "-10.0.0.zip">>, "https://github/tools"),
               AssetFor("linux"), AssetFor("mac"), AssetFor("windows")>>
GoodRelease == Release(VerText(<<10, 0>>, <<>>, FALSE), VerText(<<10, 0>>, <<>>, FALSE), AllAssets)
IncompatibleRelease ==
  Release(VerText(<<10, 0>>, <<>>, FALSE), VerText(<<10, 0>>, <<>>, FALSE), <<AssetFor("os2")>>)
SnapshotRelease ==
  Release(VerText(<<>>, <<>>, TRUE), VerText(<<>>, <<>>, TRUE), AllAssets)
Releases == {GoodRelease, IncompatibleRelease, SnapshotRelease}
NoRelease == Release(EmptyText, EmptyText, <<>>)
NoAsset == Asset(<<>>, "")

\* Archives that a download may deliver, by their content: the paths of the
\* files inside, in the archive's order; "corrupt" is no archive.
ArchiveIds == {"clangd-zip", "clangd-exe-zip", "tools-zip", "docs-zip", "corrupt"}
ArchiveFiles(id) ==
  CASE id = "clangd-zip" ->
         <<(<<"fake-clangd-10", "lib", "stddef.h">>), (<<"fake-clangd-10", "clangd">>)>>
    [] id = "clangd-exe-zip" ->
         <<(<<"fake-clangd-10", "clangd.exe">>), (<<"fake-clangd-10", "clangd">>)>>
    [] id = "tools-zip" ->
         <<(<<"fake-clangd-10", "tools", "clangd">>), (<<"fake-clangd-10", "bin", "clangd">>)>>
    [] id = "docs-zip" -> <<(<<"fake-clangd-10", "README">>)>>
    [] OTHER -> <<>>

(***************************************************************************)
(* State.                                                                  *)
(***************************************************************************)
VARIABLES
  machine,      \* the machine the code runs on (fixed)
  clangdPath,   \* ui.clangdPath, the configured clangd location
  cleanupPath,  \* ui.cleanupPath of the host's UI object (index.ts never names it)
  fs,           \* the file system under ui.storagePath
  unlinking,    \* files whose deletion was issued without being awaited
  prep,         \* the call of prepare and the InstallStatus it returned
  tasks,        \* the runs of recover, checkUpdates and installLatest
  probe         \* a call of one function of the Version namespace

vars == <<machine, clangdPath, cleanupPath, fs, unlinking, prep, tasks, probe>>

\* The runs: the background task of prepare, an explicit checkUpdates, an
\* explicit installLatest.
TaskIds == {"background", "checkUpdates", "installLatest"}

\* A run that was never started, and a run at its first statement.  events
\* are the UI hooks the run has called, calls the external operations it has
\* issued, error the exception it has caught; before is ui.clangdPath at its
\* start and storage the file system at its start; reuse is the answer of
\* ui.shouldReuse; settled tells whether the promise of the run is pending,
\* fulfilled or rejected.
IdleTask ==
  [kind |-> "none", pc |-> "idle", requested |-> FALSE, release |-> NoRelease,
   asset |-> NoAsset, aborted |-> FALSE, events |-> <<>>, calls |-> <<>>,
   error |-> "none", probed |-> <<>>, entries |-> <<>>, executable |-> <<>>,
   body |-> "", before |-> <<>>, upgrade |-> "unknown", run |-> 0,
   settled |-> "pending", reuse |-> "unasked", storage |-> <<>>]

NewTask(kind, requested, path) ==
  [IdleTask EXCEPT !.kind = kind, !.requested = requested, !.before = path]

\* What a step of a run works on: ui.clangdPath, the file system and the
\* run's own state.
World(cp, f, u, tk) == [clangdPath |-> cp, fs |-> f, unlinking |-> u, task |-> tk]

Emit(w, hook) == [w EXCEPT !.task.events = Append(@, hook)]
Issue(w, call, pc) == [w EXCEPT !.task.calls = Append(@, call), !.task.pc = pc]
Finish(w) == [w EXCEPT !.task.pc = "done", !.task.settled = "fulfilled"]
Reject(w, e) == [w EXCEPT !.task.pc = "done", !.task.settled = "rejected", !.task.error = e]

(***************************************************************************)
(* The catch blocks.                                                       *)
(***************************************************************************)
\* A recover without its catch block: the exception leaves the function.
recoverUncaught(w, e) == Reject(w, e)

\* recover's catch: show the manual install instructions.
recoverCatch(w, e) ==
  Finish(Emit([w EXCEPT !.task.error = e], "showHelp"))

\* A catch block that reports the failure of every check.
checkUpdatesCatchAlways(w, e) ==
  Finish(Emit([w EXCEPT !.task.error = e], "error"))

\* checkUpdates' catch: stay quiet unless asked.
checkUpdatesCatch(w, e) ==
  LET failed == [w EXCEPT !.task.error = e]
  IN Finish(IF w.task.requested THEN Emit(failed, "error") ELSE failed)

\* A catch block that reports the failure of every install, aborted or not.
installLatestCatchAlways(w, e) ==
  Finish(Emit([w EXCEPT !.task.error = e], "showHelp"))

\* installLatest's catch: report the failure unless the install was aborted.
installLatestCatch(w, e) ==
  LET failed == [w EXCEPT !.task.error = e]
  IN Finish(IF ~w.task.aborted THEN Emit(failed, "showHelp") ELSE failed)

\* An exception thrown inside the try block of the run.
Throw(w, e) ==
  CASE w.task.kind = "recover" -> recoverCatch(w, e)
    [] w.task.kind = "checkUpdates" -> checkUpdatesCatch(w, e)
    [] OTHER -> installLatestCatch(w, e)

(***************************************************************************)
(* namespace Install.  Each operator is the code that runs when the await  *)
(* it is named after returns, up to the next await.                        *)
(***************************************************************************)
\* The storage root before anything was installed.
EmptyStorage == [p \in Ancestors(storagePath) |-> Dir]

clangdFilename == IF machine.platform = "win32" THEN "clangd.exe" ELSE "clangd"

installDir == join(storagePath, <<"install">>)
downloadDir == join(storagePath, <<"download">>)
extractRoot(release) == join(installDir, <<Spell(release.tag_name)>>)
zipFile(asset) == join(downloadDir, <<Flatten(asset.name)>>)

\* An installLatest that drops the result of an install whose abort
\* controller was signalled.
installReturnedUnlessAborted(w, path) ==
  IF w.task.aborted THEN Finish(w)
  ELSE Finish(Emit([w EXCEPT !.clangdPath = path], "promptReload"))

\* installLatest, after install() has returned the path of the binary.
installReturned(w, path) ==
  Finish(Emit([w EXCEPT !.clangdPath = path], "promptReload"))

\* An installLatest that points ui.clangdPath at the binary before install()
\* has run.
startInstallAssigned(w) ==
  Issue([w EXCEPT !.clangdPath = join(extractRoot(w.task.release), <<clangdFilename>>)],
        "mkdir", "mkdirInstall")

\* install() is called: createDirs starts with the install directory.
startInstall(w) == Issue(w, "mkdir", "mkdirInstall")

\* createDirs, after mkdir of the install directory.
mkdirInstallDone(w, ok) ==
  IF ~ok THEN Throw(w, "mkdir failed")
  ELSE Issue([w EXCEPT !.fs = mkdirp(@, installDir)], "mkdir", "mkdirDownload")

\* createDirs, after mkdir of the download directory: the existing install
\* is listed.
mkdirDownloadDone(w, ok) ==
  IF ~ok THEN Throw(w, "mkdir failed")
  ELSE Issue([w EXCEPT !.fs = mkdirp(@, downloadDir)], "readdirp", "readdirp")

\* download() is called: the progress dialog is shown and the request sent.
startDownload(w) == Issue(Emit(w, "progress"), "fetch asset", "dlFetch")

\* An install that asks whether to reuse whatever the listing holds.
readdirpDoneAlwaysAsks(w, entries) ==
  Issue(Emit([w EXCEPT !.task.entries = entries], "shouldReuse"),
        "shouldReuse", "shouldReuse")

\* install, after readdirp: ask whether to reuse what is there.
readdirpDone(w, entries) ==
  IF entries # <<>>
  THEN Issue(Emit([w EXCEPT !.task.entries = entries], "shouldReuse"),
             "shouldReuse", "shouldReuse")
  ELSE startDownload(w)

\* An install that replaces what is there whatever the answer, unless the
\* question was dismissed.
shouldReuseDoneReplaces(w, reuse) ==
  LET v == [w EXCEPT !.task.reuse = reuse]
  IN IF reuse = "undefined"
     THEN Throw([v EXCEPT !.task.aborted = TRUE], "already installed")
     ELSE Issue(v, "rimraf", "rimraf")

\* An install that takes a dismissed question for the answer "no".
shouldReuseDoneFalsy(w, reuse) ==
  LET v == [w EXCEPT !.task.reuse = reuse]
  IN IF reuse = "true"
     THEN LET found == FirstIndex(v.task.entries,
                                  LAMBDA e : basename(e) = clangdFilename)
          IN IF found = 0 THEN Throw(v, "Didn't find clangd in the install")
             ELSE installReturned(v, v.task.entries[found])
     ELSE Issue(v, "rimraf", "rimraf")

\* An install that, told to reuse a tree without the binary, replaces it.
shouldReuseDoneFallsBack(w, reuse) ==
  LET v == [w EXCEPT !.task.reuse = reuse]
  IN IF reuse = "undefined"
     THEN Throw([v EXCEPT !.task.aborted = TRUE], "already installed")
     ELSE IF reuse = "true"
     THEN LET found == FirstIndex(v.task.entries,
                                  LAMBDA e : basename(e) = clangdFilename)
          IN IF found = 0 THEN Issue(v, "rimraf", "rimraf")
             ELSE installReturned(v, v.task.entries[found])
     ELSE Issue(v, "rimraf", "rimraf")

\* install, after the answer of ui.shouldReuse ("undefined": no choice made).
shouldReuseDone(w, reuse) ==
  LET v == [w EXCEPT !.task.reuse = reuse]
  IN IF reuse = "undefined"
     THEN Throw([v EXCEPT !.task.aborted = TRUE], "already installed")
     ELSE IF reuse = "true"
     THEN LET found == FirstIndex(v.task.entries,
                                  LAMBDA e : basename(e) = clangdFilename)
          IN IF found = 0 THEN Throw(v, "Didn't find clangd in the install")
             ELSE installReturned(v, v.task.entries[found])
     ELSE Issue(v, "rimraf", "rimraf")

\* An install that starts the download over the old version: nothing is
\* removed.
rimrafDoneKeeps(w, ok, left) ==
  IF ok THEN startDownload(w) ELSE Throw(w, "rimraf failed")

\* An install that removes the whole install directory, every tag with it,
\* in place of the old version.
rimrafDoneEveryTag(w, ok, left) ==
  IF ok THEN startDownload([w EXCEPT !.fs = remove(@, installDir)])
  ELSE Throw(w, "rimraf failed")

\* install, after rimraf of the old version; on failure the paths in `left`
\* are still there.
rimrafDone(w, ok, left) ==
  LET root == extractRoot(w.task.release)
  IN IF ok THEN startDownload([w EXCEPT !.fs = remove(@, root)])
     ELSE Throw([w EXCEPT !.fs = [p \in {q \in DOMAIN @ : ~Under(root, q)} \cup left
                                    |-> @[p]]],
                "rimraf failed")

\* A download that returns with the response, while the body is still being
\* written to the file.
dlFetchDoneUnawaited(w, response, body) ==
  IF response # "ok" THEN Throw(w, response)
  ELSE Issue([w EXCEPT !.fs = writeFile(@, zipFile(w.task.asset), "partial"),
                       !.task.body = body],
             "open", "open")

\* download, after fetch: the response is "ok" with an archive as body, or
\* the request failed.  No file is created before the response is accepted.
dlFetchDone(w, response, body) ==
  IF response # "ok" THEN Throw(w, response)
  ELSE Issue([w EXCEPT !.fs = writeFile(@, zipFile(w.task.asset), "partial"),
                       !.task.body = body],
             "pipeline", "dlStream")

\* A download that deletes the partial file and swallows the error of the
\* transfer.
dlStreamDoneSwallows(w, ok) ==
  LET dest == zipFile(w.task.asset)
  IN IF ok
     THEN Issue([w EXCEPT !.fs = writeFile(@, dest, w.task.body)], "open", "open")
     ELSE Issue([w EXCEPT !.unlinking = @ \cup {dest}], "open", "open")

\* A download that awaits the deletion of the partial file and lets its
\* error take the place of the transfer's.
dlStreamDoneMasks(w, ok) ==
  LET dest == zipFile(w.task.asset)
  IN IF ok
     THEN Issue([w EXCEPT !.fs = writeFile(@, dest, w.task.body)], "open", "open")
     ELSE Throw([w EXCEPT !.fs = remove(@, dest)], "unlink failed")

\* download, after the pipeline: the file is complete and the archive is
\* opened, or the partial file's deletion is issued and the error rethrown.
dlStreamDone(w, ok) ==
  LET dest == zipFile(w.task.asset)
  IN IF ok
     THEN Issue([w EXCEPT !.fs = writeFile(@, dest, w.task.body)], "open", "open")
     ELSE Throw([w EXCEPT !.unlinking = @ \cup {dest}], "download failed")

\* The files of an archive, written below a directory.
RECURSIVE extractFiles(_, _, _, _)
extractFiles(f, root, files, data) ==
  IF files = <<>> THEN f
  ELSE extractFiles(writeFile(f, join(root, Head(files)), data), root, Tail(files), data)

\* An install that extracts the archive without looking for the binary
\* first.
openDoneExtractsFirst(w) ==
  LET zip == zipFile(w.task.asset)
      readable == exists(w.fs, zip) /\ w.fs[zip].type = "file"
                    /\ w.fs[zip].data \in ArchiveIds \ {"corrupt"}
      files == IF readable THEN ArchiveFiles(w.fs[zip].data) ELSE <<>>
      found == FirstIndex(files, LAMBDA f : basename(f) = clangdFilename)
  IN IF ~readable THEN Throw(w, "not an archive")
     ELSE Issue(Emit([w EXCEPT !.task.executable =
                                 IF found = 0 THEN <<>> ELSE files[found]], "slow"),
                "extract", "extract")

\* install, after unzipper.Open.file: look for the binary, then extract.
openDone(w) ==
  LET zip == zipFile(w.task.asset)
      readable == exists(w.fs, zip) /\ w.fs[zip].type = "file"
                    /\ w.fs[zip].data \in ArchiveIds \ {"corrupt"}
      files == IF readable THEN ArchiveFiles(w.fs[zip].data) ELSE <<>>
      found == FirstIndex(files, LAMBDA f : basename(f) = clangdFilename)
  IN IF ~readable THEN Throw(w, "not an archive")
     ELSE IF found = 0 THEN Throw(w, "Didn't find clangd in the archive")
     ELSE Issue(Emit([w EXCEPT !.task.executable = files[found]], "slow"),
                "extract", "extract")

\* install, after archive.extract: the first `written` files of the archive
\* are on disk; all of them when the extraction succeeded.
extractDone(w, ok, written) ==
  LET files == ArchiveFiles(w.task.body)
      after == [w EXCEPT !.fs = extractFiles(@, extractRoot(w.task.release),
                                             SubSeq(files, 1, written), w.task.body)]
  IN IF ok THEN Issue(after, "chmod", "chmod") ELSE Throw(after, "extract failed")

\* install, after chmod of the binary.
chmodDone(w, ok) ==
  IF ok THEN Issue(w, "unlink", "unlink") ELSE Throw(w, "chmod failed")

\* An install that expects the binary at the top of the extracted tree.
unlinkDoneAtRoot(w, ok) ==
  IF ~ok THEN Throw(w, "unlink failed")
  ELSE installReturned([w EXCEPT !.fs = remove(@, zipFile(w.task.asset))],
                       join(extractRoot(w.task.release), <<clangdFilename>>))

\* install, after unlink of the downloaded archive: return the binary's path.
unlinkDone(w, ok) ==
  IF ~ok THEN Throw(w, "unlink failed")
  ELSE installReturned([w EXCEPT !.fs = remove(@, zipFile(w.task.asset))],
                       join(extractRoot(w.task.release), w.task.executable))

(***************************************************************************)
(* recover, checkUpdates and installLatest.                                *)
(***************************************************************************)
\* The first statement of all three: Github.latestRelease() sends its
\* request.
startRun(w) == Issue(w, "fetch release", "fetch")

\* checkUpdates, after chooseAsset: Version.upgrade computes the released
\* version, then runs the configured binary (ui.clangdPath as it is now).
startUpgrade(w) ==
  LET releasedVer == released(w.task.release)
  IN IF ~releasedVer.ok THEN Throw(w, releasedVer.error)
     ELSE Issue([w EXCEPT !.task.probed = w.clangdPath], "clangd --version", "probe")

\* A check that says nothing when the installed version is up to date.
probeDoneNoInfo(w, output) ==
  LET result == upgrade(w.task.release, output)
  IN IF ~result.ok THEN Throw(w, result.error)
     ELSE IF ~result.value.upgrade THEN Finish([w EXCEPT !.task.upgrade = "no"])
     ELSE Finish(Emit([w EXCEPT !.task.upgrade = "yes"], "promptUpdate"))

\* checkUpdates, after the binary has printed its version.
probeDone(w, output) ==
  LET result == upgrade(w.task.release, output)
  IN IF ~result.ok THEN Throw(w, result.error)
     ELSE IF ~result.value.upgrade
       THEN LET same == [w EXCEPT !.task.upgrade = "no"]
            IN Finish(IF w.task.requested THEN Emit(same, "info") ELSE same)
     ELSE Finish(Emit([w EXCEPT !.task.upgrade = "yes"], "promptUpdate"))

\* After `await Github.chooseAsset(release)`.
chooseAssetDone(w, chosen) ==
  IF ~chosen.ok THEN Throw(w, chosen.error)
  ELSE CASE w.task.kind = "recover" -> Finish(Emit(w, "promptInstall"))
         [] w.task.kind = "checkUpdates" -> startUpgrade(w)
         [] OTHER -> startInstall([w EXCEPT !.task.asset = chosen.value])

\* After `await Github.latestRelease()`: chooseAsset runs the glibc probe on
\* Linux, and nothing that takes time elsewhere.
latestReleaseDone(w, release) ==
  LET got == [w EXCEPT !.task.release = release]
  IN IF variants(machine.platform) = "linux" THEN Issue(got, "ldd --version", "ldd")
     ELSE chooseAssetDone(got, chooseAsset(release, machine.platform, machine.arch, <<>>))

\* chooseAsset, after the glibc probe.
lddDone(w) ==
  chooseAssetDone(w, chooseAsset(w.task.release, machine.platform, machine.arch,
                                 machine.ldd))

(***************************************************************************)
(* prepare.                                                                *)
(***************************************************************************)
\* fs.promises.access(path) succeeds.
access(f, path) == path \in Accessible \/ exists(f, path)

\* A lookup that takes an absolute path without trying to access it.
lookupUnchecked(f, path) ==
  IF isAbsolute(path) THEN Some(path) ELSE which(path)

\* The lookup of the configured path: the path itself when it is absolute
\* and accessible, what `which` finds when it is relative, null otherwise.
lookup(f, path) ==
  IF isAbsolute(path) THEN (IF access(f, path) THEN Some(path) ELSE Null)
  ELSE which(path)

\* A prepare that checks for updates whether or not it was asked to.
backgroundAlwaysChecks(found, checkUpdate, path) ==
  IF found.isNull THEN startRun(World(path, <<>>, {}, NewTask("recover", FALSE, path))).task
  ELSE startRun(World(path, <<>>, {}, NewTask("checkUpdates", FALSE, path))).task

\* A prepare that awaits its background task: the release request has ended
\* (here: timed out) before prepare returns.
backgroundAwaited(found, checkUpdate, path) ==
  IF found.isNull
  THEN Throw(startRun(World(path, <<>>, {}, NewTask("recover", FALSE, path))),
             "The operation was aborted").task
  ELSE IF checkUpdate
    THEN Throw(startRun(World(path, <<>>, {}, NewTask("checkUpdates", FALSE, path))),
               "The operation was aborted").task
  ELSE Finish(World(path, <<>>, {}, NewTask("noop", FALSE, path))).task

\* The background task prepare starts for the result of the lookup.
background(found, checkUpdate, path) ==
  IF found.isNull THEN startRun(World(path, <<>>, {}, NewTask("recover", FALSE, path))).task
  ELSE IF checkUpdate
    THEN startRun(World(path, <<>>, {}, NewTask("checkUpdates", FALSE, path))).task
  ELSE Finish(World(path, <<>>, {}, NewTask("noop", FALSE, path))).task

IdlePrep == [pc |-> "idle", checkUpdate |-> FALSE, path |-> <<>>, status |-> Null]

(***************************************************************************)
(* Actions.                                                                *)
(***************************************************************************)
Now(t) == World(clangdPath, fs, unlinking, tasks[t])

Becomes(t, w) ==
  /\ clangdPath' = w.clangdPath
  /\ fs' = w.fs
  /\ unlinking' = w.unlinking
  /\ tasks' = [tasks EXCEPT ![t] = w.task]

\* The host calls prepare(ui, checkUpdate): the lookup of ui.clangdPath is
\* started.
PrepareCall ==
  /\ prep.pc = "idle"
  /\ \E checkUpdate \in BOOLEAN :
       prep' = [prep EXCEPT !.pc = "lookup", !.checkUpdate = checkUpdate,
                            !.path = clangdPath]
  /\ UNCHANGED <<machine, cleanupPath, clangdPath, fs, unlinking, tasks, probe>>

\* The lookup returns: prepare starts the background task and returns the
\* InstallStatus.
PrepareReturn ==
  /\ prep.pc = "lookup"
  /\ tasks["background"].pc = "idle"
  /\ LET found == lookup(fs, prep.path)
         bg == background(found, prep.checkUpdate, clangdPath)
     IN /\ tasks' = [tasks EXCEPT !["background"] = bg]
        /\ prep' = [prep EXCEPT !.pc = "returned", !.status = found]
  /\ UNCHANGED <<machine, cleanupPath, clangdPath, fs, unlinking, probe>>

\* The host calls checkUpdates(requested, ui).
CheckUpdatesCall ==
  /\ tasks["checkUpdates"].pc = "idle"
  /\ \E requested \in BOOLEAN :
       Becomes("checkUpdates",
               startRun(World(clangdPath, fs, unlinking,
                              NewTask("checkUpdates", requested, clangdPath))))
  /\ UNCHANGED <<machine, cleanupPath, prep, probe>>

\* The release request fails: a status that is not ok, or the timeout.
FetchFails(t) ==
  /\ tasks[t].pc = "fetch"
  /\ \E e \in {"Can't fetch release", "The operation was aborted"} :
       Becomes(t, Throw(Now(t), e))
  /\ UNCHANGED <<machine, cleanupPath, prep, probe>>

\* The release request is answered with a status that is ok: the body is read.
FetchResponds(t) ==
  /\ tasks[t].pc = "fetch"
  /\ Becomes(t, Issue(Now(t), "json", "json"))
  /\ UNCHANGED <<machine, cleanupPath, prep, probe>>

\* The body is read: a release, or something that is no JSON.
JsonDone(t) ==
  /\ tasks[t].pc = "json"
  /\ \/ \E release \in Releases : Becomes(t, latestReleaseDone(Now(t), release))
     \/ Becomes(t, Throw(Now(t), "invalid json"))
  /\ UNCHANGED <<machine, cleanupPath, prep, probe>>

\* The glibc probe has printed its output.
LddDone(t) ==
  /\ tasks[t].pc = "ldd"
  /\ Becomes(t, lddDone(Now(t)))
  /\ UNCHANGED <<machine, cleanupPath, prep, probe>>

\* The configured binary has printed its version.
ProbeDone(t) ==
  /\ tasks[t].pc = "probe"
  /\ Becomes(t, probeDone(Now(t), VersionOutput(fs, tasks[t].probed)))
  /\ UNCHANGED <<machine, cleanupPath, prep, probe>>

\* The host calls installLatest(ui), when no earlier call is still running.
InstallLatestCall ==
  /\ tasks["installLatest"].pc \in {"idle", "done"}
  /\ tasks["installLatest"].run < MaxRuns
  /\ Becomes("installLatest",
             startRun(World(clangdPath, fs, unlinking,
                            [NewTask("installLatest", TRUE, clangdPath)
                               EXCEPT !.run = tasks["installLatest"].run + 1,
                                      !.storage = fs])))
  /\ UNCHANGED <<machine, cleanupPath, prep, probe>>

\* The user cancels the download, or the editor signals the abort controller
\* it was given with the progress dialog at some later point of the run.
Cancel(t) ==
  /\ tasks[t].pc # "done"
  /\ "progress" \in Range(tasks[t].events)
  /\ ~tasks[t].aborted
  /\ tasks' = [tasks EXCEPT ![t].aborted = TRUE]
  /\ UNCHANGED <<machine, cleanupPath, clangdPath, fs, unlinking, prep, probe>>

MkdirInstallDone(t) ==
  /\ tasks[t].pc = "mkdirInstall"
  /\ \E ok \in BOOLEAN : Becomes(t, mkdirInstallDone(Now(t), ok))
  /\ UNCHANGED <<machine, cleanupPath, prep, probe>>

MkdirDownloadDone(t) ==
  /\ tasks[t].pc = "mkdirDownload"
  /\ \E ok \in BOOLEAN : Becomes(t, mkdirDownloadDone(Now(t), ok))
  /\ UNCHANGED <<machine, cleanupPath, prep, probe>>

ReaddirpDone(t) ==
  /\ tasks[t].pc = "readdirp"
  /\ \E entries \in readdirp(fs, extractRoot(tasks[t].release)) :
       Becomes(t, readdirpDone(Now(t), entries))
  /\ UNCHANGED <<machine, cleanupPath, prep, probe>>

\* The user answers the reuse prompt, or dismisses it.
ShouldReuseDone(t) ==
  /\ tasks[t].pc = "shouldReuse"
  /\ \E reuse \in {"true", "false", "undefined"} :
       Becomes(t, shouldReuseDone(Now(t), reuse))
  /\ UNCHANGED <<machine, cleanupPath, prep, probe>>

\* rimraf ends: everything is removed, or it failed and the directories and
\* some of the files are still there.
RimrafDone(t) ==
  /\ tasks[t].pc = "rimraf"
  /\ LET root == extractRoot(tasks[t].release)
         below == {p \in DOMAIN fs : Under(root, p)}
         files == {p \in below : fs[p].type = "file"}
     IN \/ Becomes(t, rimrafDone(Now(t), TRUE, {}))
        \/ \E kept \in SUBSET files :
             Becomes(t, rimrafDone(Now(t), FALSE, (below \ files) \cup kept))
  /\ UNCHANGED <<machine, cleanupPath, prep, probe>>

\* The asset request ends.  An aborted request can only end as aborted.
DlFetchDone(t) ==
  /\ tasks[t].pc = "dlFetch"
  /\ IF tasks[t].aborted
     THEN Becomes(t, dlFetchDone(Now(t), "The operation was aborted", ""))
     ELSE \/ \E body \in ArchiveIds : Becomes(t, dlFetchDone(Now(t), "ok", body))
          \/ \E e \in {"Can't fetch asset", "network error"} :
               Becomes(t, dlFetchDone(Now(t), e, ""))
  /\ UNCHANGED <<machine, cleanupPath, prep, probe>>

\* The transfer of the body ends.  An aborted transfer can only fail.
DlStreamDone(t) ==
  /\ tasks[t].pc = "dlStream"
  /\ \E ok \in (IF tasks[t].aborted THEN {FALSE} ELSE BOOLEAN) :
       Becomes(t, dlStreamDone(Now(t), ok))
  /\ UNCHANGED <<machine, cleanupPath, prep, probe>>

\* A deletion that was issued without being awaited ends (its error, if
\* any, is ignored).
UnlinkCompletes ==
  /\ \E p \in unlinking :
       /\ unlinking' = unlinking \ {p}
       /\ \/ fs' = remove(fs, p)
          \/ fs' = fs
  /\ UNCHANGED <<machine, cleanupPath, clangdPath, prep, tasks, probe>>

OpenDone(t) ==
  /\ tasks[t].pc = "open"
  /\ Becomes(t, openDone(Now(t)))
  /\ UNCHANGED <<machine, cleanupPath, prep, probe>>

\* The extraction ends: all files are written, or it failed after some.
ExtractDone(t) ==
  /\ tasks[t].pc = "extract"
  /\ LET n == Len(ArchiveFiles(tasks[t].body))
     IN \/ Becomes(t, extractDone(Now(t), TRUE, n))
        \/ \E written \in 0..(n - 1) : Becomes(t, extractDone(Now(t), FALSE, written))
  /\ UNCHANGED <<machine, cleanupPath, prep, probe>>

ChmodDone(t) ==
  /\ tasks[t].pc = "chmod"
  /\ \E ok \in BOOLEAN : Becomes(t, chmodDone(Now(t), ok))
  /\ UNCHANGED <<machine, cleanupPath, prep, probe>>

UnlinkDone(t) ==
  /\ tasks[t].pc = "unlink"
  /\ \E ok \in BOOLEAN : Becomes(t, unlinkDone(Now(t), ok))
  /\ UNCHANGED <<machine, cleanupPath, prep, probe>>

\* A call of Version.upgrade from checkUpdates(requested, ui), with the
\* output the binary will print.
UpgradeCall(release, output, requested) ==
  [release |-> release, output |-> output, requested |-> requested,
   done |-> FALSE, result |-> Threw("pending"), events |-> <<>>]
NoCall == UpgradeCall(NoRelease, <<>>, FALSE)

\* The call returns or throws, and checkUpdates runs to its end: result is
\* what Version.upgrade returned or threw, events the UI hooks called.
UpgradeReturn ==
  /\ ~probe.done
  /\ probe # NoCall
  /\ LET tk == [NewTask("checkUpdates", probe.requested, OldClangd)
                  EXCEPT !.release = probe.release, !.pc = "probe"]
         w == World(OldClangd, EmptyStorage, {}, tk)
     IN probe' = [probe EXCEPT !.done = TRUE,
                               !.result = upgrade(probe.release, probe.output),
                               !.events = probeDone(w, probe.output).task.events]
  /\ UNCHANGED <<machine, cleanupPath, clangdPath, fs, unlinking, prep, tasks>>

(***************************************************************************)
(* Initial states and specifications.                                      *)
(***************************************************************************)
\* The storage root with an earlier install of release 10.0: one with the
\* binary, one without, and an empty directory.
PriorRoot == join(installDir, <<"10.0">>)
PriorClangd == join(PriorRoot, <<"weird-dir", "clangd">>)
InitialStorages ==
  {EmptyStorage,
   writeFile(EmptyStorage, PriorClangd, "prior"),
   writeFile(EmptyStorage, join(PriorRoot, <<"README">>), "prior"),
   mkdirp(EmptyStorage, join(PriorRoot, <<"weird-dir">>))}

IdleTasks == [t \in TaskIds |-> IdleTask]

\* An install superseded by a newer one, as the host's UI object may name it
\* in ui.cleanupPath, and the storage that holds it.
SupersededClangd == join(installDir, <<"4.0", "dir", "clangd">>)
StartStorage(cleanup) ==
  IF cleanup = Null THEN EmptyStorage ELSE mkdirp(EmptyStorage, cleanup.value)

\* The startup flow and the update check: prepare with its background task,
\* and an explicit checkUpdates, on any machine and for any configured path.
Init ==
  /\ machine \in Machines
  /\ clangdPath \in ConfiguredPaths
  /\ cleanupPath \in {Null, Some(SupersededClangd)}
  /\ fs = StartStorage(cleanupPath)
  /\ unlinking = {}
  /\ prep = IdlePrep
  /\ tasks = IdleTasks
  /\ probe = NoCall

Next ==
  \/ PrepareCall
  \/ PrepareReturn
  \/ CheckUpdatesCall
  \/ \E t \in {"background", "checkUpdates"} :
       \/ FetchFails(t)
       \/ FetchResponds(t)
       \/ JsonDone(t)
       \/ LddDone(t)
       \/ ProbeDone(t)

Spec == Init /\ [][Next]_vars

\* More outputs of the glibc probe: an old version of three components, a
\* number that is no version, and a first line that is not glibc's before a
\* line that is.
patchLdd == LddLine(<<Word("(Debian GLIBC"), Space, Word("2.17-9)")>>, VerText(<<2, 17, 5>>, <<>>, FALSE))
unparsedLdd == LddLine(<<Word("(Debian GLIBC"), Space, Word("2.17-9)")>>, VerText(<<2, 17, 0, 1>>, <<>>, FALSE))
secondLineLdd == <<Word("musl"), Newline>> \o oldLdd
InstallMachines ==
  Machines \cup {Machine("linux", "x64", l) : l \in {patchLdd, unparsedLdd, secondLineLdd}}

\* The explicit install: up to MaxRuns calls of installLatest, one after
\* another, on any machine and over any initial storage; the outputs of the
\* glibc probe that pass the gate as the recent glibc does are followed over
\* the empty storage only.
InitInstall ==
  /\ machine \in InstallMachines
  /\ clangdPath = OldClangd
  /\ cleanupPath = Null
  /\ fs \in InitialStorages
  /\ fs = EmptyStorage \/ machine.ldd \in {<<>>, oldLdd, newLdd}
  /\ unlinking = {}
  /\ prep = IdlePrep
  /\ tasks = IdleTasks
  /\ probe = NoCall

NextInstall ==
  \/ InstallLatestCall
  \/ UnlinkCompletes
  \/ \E t \in {"installLatest"} :
       \/ FetchFails(t)
       \/ FetchResponds(t)
       \/ JsonDone(t)
       \/ LddDone(t)
       \/ MkdirInstallDone(t)
       \/ MkdirDownloadDone(t)
       \/ ReaddirpDone(t)
       \/ ShouldReuseDone(t)
       \/ RimrafDone(t)
       \/ DlFetchDone(t)
       \/ DlStreamDone(t)
       \/ Cancel(t)
       \/ OpenDone(t)
       \/ ExtractDone(t)
       \/ ChmodDone(t)
       \/ UnlinkDone(t)

SpecInstall == InitInstall /\ [][NextInstall]_vars

\* The version comparator alone: Version.upgrade on every pair of a release
\* and an output of the bounded families below.
Components == 0..MaxComp
Partial == UNION {[1..n -> Components] : n \in 0..3}
VersionTexts ==
  {VerText(nums, <<>>, FALSE) : nums \in Partial}
    \cup {VerText(nums, pre, FALSE) : nums \in [1..3 -> Components], pre \in PreIds}
    \cup {VerText(<<>>, <<>>, TRUE), VerText(<<0, 0, 0, 0>>, <<>>, FALSE)}

\* What may stand before the marker, and what may follow the version.
Vendors == {<<>>, <<Word("Apple"), Space>>, <<Space, Word("Apple"), Newline>>,
            <<Word("Ubuntu"), Space>>, <<Word("Apple"), Space, Word("LLVM"), Space>>,
            <<Newline>>}
Trailers == {<<>>, <<Space, Word("(release)")>>, <<Tilde, Word("18.04")>>, <<Word("git")>>}

VersionOutputs ==
  {<<Marker, VerTok(v), Newline>> : v \in VersionTexts}
    \cup {vendor \o <<Marker, VerTok(v)>> \o trailer :
            vendor \in Vendors, trailer \in Trailers,
            v \in {Full(0, 0, 1), VerText(<<1>>, <<>>, FALSE)}}
    \cup {<<>>, <<Word("Apple"), Space, Word("clangd")>>, <<Marker>>, <<Marker, Newline>>}

ReleasesOf(tags, names) == {Release(name, tag, AllAssets) : tag \in tags, name \in names}
NoVersion == VerText(<<>>, <<>>, TRUE)

\* Every tag against every plain output; every name under a tag that is no
\* version; every vendor and trailer, asked for and not; tags that are
\* versions under names that are other versions, or none.
UpgradeCalls ==
  {UpgradeCall(release, <<Marker, VerTok(v), Newline>>, TRUE) :
     release \in ReleasesOf(VersionTexts, {NoVersion}), v \in VersionTexts}
    \cup {UpgradeCall(release, <<Marker, VerTok(v), Newline>>, TRUE) :
            release \in ReleasesOf({NoVersion, VerText(<<0, 0, 0, 0>>, <<>>, FALSE)},
                                   VersionTexts),
            v \in {Full(0, 0, 1), Full(1, 1, 1), VerText(<<1>>, <<>>, FALSE)}}
    \cup {UpgradeCall(release, output, requested) :
            release \in ReleasesOf({VerText(<<1, 0>>, <<>>, FALSE), NoVersion,
                                    GluedText(<<1, 0, 0>>, WordPre)}, {NoVersion}),
            output \in VersionOutputs \ {<<Marker, VerTok(v), Newline>> : v \in VersionTexts},
            requested \in BOOLEAN}
    \cup {UpgradeCall(release, <<Marker, VerTok(v), Newline>>, requested) :
            release \in ReleasesOf({Full(1, 0, 0), VerText(<<2>>, <<>>, FALSE)},
                                   {Full(0, 0, 1), VerText(<<1, 1>>, <<>>, FALSE),
                                    VerText(<<0, 0, 0, 0>>, <<>>, FALSE)}),
            v \in {Full(0, 0, 1), Full(1, 1, 1)},
            requested \in BOOLEAN}

InitVersion ==
  /\ machine = Machine("linux", "x64", newLdd)
  /\ clangdPath = OldClangd
  /\ cleanupPath = Null
  /\ fs = EmptyStorage
  /\ unlinking = {}
  /\ prep = IdlePrep
  /\ tasks = IdleTasks
  /\ probe \in UpgradeCalls

NextVersion == UpgradeReturn

SpecVersion == InitVersion /\ [][NextVersion]_vars

\* The asset chooser alone: Github.chooseAsset on every release of the
\* bounded family below, on every machine.
AssetNames ==
  {<<"clangd-", "linux", "-10.0.0.zip">>, <<"clangd-", "mac", "-10.0.0.zip">>,
   <<"clangd-", "windows", "-10.0.0.zip">>,
   <<"clangd_indexing_tools-", "linux", "-10.0.0.zip">>,
   <<"debug-", "clangd-", "linux", ".zip">>, <<"clangd-", "windows", "-arm.zip">>}
AssetUrl(name) == "https://github/" \o Flatten(name)
AssetLists ==
  UNION {[1..n -> {Asset(name, AssetUrl(name)) : name \in AssetNames}] : n \in 0..MaxAssets}

\* First lines of `ldd --version`, by the words before the number and by the
\* number; an output whose second line alone looks like glibc's; no output.
LddVersions ==
  {VerText(nums, <<>>, FALSE) :
     nums \in {<<2, 17>>, <<2, 18>>, <<2, 29>>, <<2, 3>>, <<1, 99>>, <<3, 0>>,
               <<2, 17, 5>>, <<2, 18, 1>>, <<2>>, <<2, 17, 0, 1>>}}
LddOutputs ==
  {LddLine(words, v) :
     words \in {<<Word("(Debian GLIBC"), Space, Word("2.17-9)")>>, <<Word("(musl)")>>},
     v \in LddVersions}
    \cup {<<Word("musl"), Newline>> \o oldLdd, <<>>}

AssetMachines ==
  {Machine("linux", arch, ldd) : arch \in {"x64", "arm64", "ia32"}, ldd \in LddOutputs}
    \cup {Machine(platform, arch, <<>>) :
            platform \in {"win32", "darwin", "freebsd"}, arch \in {"x64", "arm64", "ia32"}}

\* A call of Github.chooseAsset(release).
ChooseCall(release) == [release |-> release, done |-> FALSE, result |-> Threw("pending")]

\* The call returns an asset or throws.
ChooseReturn ==
  /\ ~probe.done
  /\ probe' = [probe EXCEPT !.done = TRUE,
                            !.result = chooseAsset(probe.release, machine.platform,
                                                   machine.arch, machine.ldd)]
  /\ UNCHANGED <<machine, cleanupPath, clangdPath, fs, unlinking, prep, tasks>>

InitAsset ==
  /\ machine \in AssetMachines
  /\ clangdPath = OldClangd
  /\ cleanupPath = Null
  /\ fs = EmptyStorage
  /\ unlinking = {}
  /\ prep = IdlePrep
  /\ tasks = IdleTasks
  /\ probe \in {ChooseCall(Release(NoVersion, VerText(<<10, 0>>, <<>>, FALSE), assets)) :
                  assets \in AssetLists}

NextAsset == ChooseReturn

SpecAsset == InitAsset /\ [][NextAsset]_vars

\* The update check beside an install: prepare with its background check and
\* installLatest, called in any order and running at the same time, over the
\* old binary and an empty storage.
RaceMachines == {Machine("linux", "x64", newLdd), Machine("darwin", "arm64", <<>>)}

InitRace ==
  /\ machine \in RaceMachines
  /\ clangdPath = OldClangd
  /\ cleanupPath = Null
  /\ fs = EmptyStorage
  /\ unlinking = {}
  /\ prep = IdlePrep
  /\ tasks = IdleTasks
  /\ probe = NoCall

NextRace ==
  \/ PrepareCall
  \/ PrepareReturn
  \/ InstallLatestCall
  \/ UnlinkCompletes
  \/ \E t \in {"background", "installLatest"} :
       \/ FetchFails(t)
       \/ FetchResponds(t)
       \/ JsonDone(t)
       \/ LddDone(t)
       \/ ProbeDone(t)
       \/ MkdirInstallDone(t)
       \/ MkdirDownloadDone(t)
       \/ ReaddirpDone(t)
       \/ ShouldReuseDone(t)
       \/ RimrafDone(t)
       \/ DlFetchDone(t)
       \/ DlStreamDone(t)
       \/ Cancel(t)
       \/ OpenDone(t)
       \/ ExtractDone(t)
       \/ ChmodDone(t)
       \/ UnlinkDone(t)

SpecRace == InitRace /\ [][NextRace]_vars

\* Version.run spawns the binary and registers no listener for the child's
\* 'error' event.  A binary that cannot be started makes the child emit
\* 'error': where the host handles uncaught exceptions the run goes on with an
\* empty output (ProbeDone); where it does not, the process ends there, and
\* every run that was under way with it.
Spawns(f, p) ==
  LET bin == Resolve(p)
  IN ~bin.isNull /\ access(f, bin.value)

ProbeCrashes(t) ==
  /\ tasks[t].pc = "probe"
  /\ ~Spawns(fs, tasks[t].probed)
  /\ tasks' = [u \in TaskIds |->
                IF tasks[u].pc \in {"idle", "done"} THEN tasks[u]
                ELSE [tasks[u] EXCEPT !.pc = "killed"]]
  /\ UNCHANGED <<machine, cleanupPath, clangdPath, fs, unlinking, prep, probe>>

\* The startup flow and the update check, over a binary that runs and one
\* that is missing, where every external call that was issued returns or
\* fails in the end: a run that waits for one takes its next step.  The
\* calls of the host (prepare, checkUpdates) may never come.
RunStep(t) ==
  \/ FetchFails(t)
  \/ FetchResponds(t)
  \/ JsonDone(t)
  \/ LddDone(t)
  \/ ProbeDone(t)
  \/ ProbeCrashes(t)

InitLive ==
  /\ machine \in RaceMachines
  /\ clangdPath \in {OldClangd, MissingClangd}
  /\ cleanupPath = Null
  /\ fs = EmptyStorage
  /\ unlinking = {}
  /\ prep = IdlePrep
  /\ tasks = IdleTasks
  /\ probe = NoCall

NextLive ==
  \/ PrepareCall
  \/ PrepareReturn
  \/ CheckUpdatesCall
  \/ \E t \in {"background", "checkUpdates"} : RunStep(t)

\* The run waits for an external call.
Waiting(t) == tasks[t].pc \in {"fetch", "json", "ldd", "probe"}

\* The run leaves its wait.  Among the steps of NextLive these are the steps
\* RunStep(t), and one is possible exactly while the run waits.
Resumes(t) ==
  /\ Waiting(t)
  /\ \/ /\ tasks' = [tasks EXCEPT ![t].pc = "resumed"]
        /\ UNCHANGED <<machine, cleanupPath, clangdPath, fs, unlinking, prep, probe>>
     \/ RunStep(t)

SpecLive ==
  /\ InitLive
  /\ [][NextLive]_vars
  /\ WF_vars(PrepareReturn)
  /\ \A t \in {"background", "checkUpdates"} : WF_vars(Resumes(t))

(***************************************************************************)
(* Properties of the startup flow, the update check and the recovery       *)
(* (specification Spec).                                                   *)
(***************************************************************************)
Background == tasks["background"]
Check == tasks["checkUpdates"]
InstallRun == tasks["installLatest"]

\* The configured path names no binary: it is absolute and cannot be
\* accessed, or relative and not on the search path.
NotFound(path) ==
  IF isAbsolute(path) THEN path \notin Accessible /\ path \notin DOMAIN fs
  ELSE path # <<"clangd">>

\* The binary that a configured path that is found stands for.
Resolved(path) == IF isAbsolute(path) THEN path ELSE SystemClangd

\* The release request of a run was answered with a release, and the release
\* has an asset for this machine.
ChoiceSucceeds(tk) ==
  /\ tk.release \in Releases
  /\ chooseAsset(tk.release, machine.platform, machine.arch, machine.ldd).ok

\* What an update check of the binary configured at its start comes to, once
\* it has ended.
CheckOutcome(tk) ==
  IF ~ChoiceSucceeds(tk) THEN "failed"
  ELSE LET result == upgrade(tk.release, VersionOutput(fs, tk.before))
       IN IF ~result.ok THEN "failed"
          ELSE IF result.value.upgrade THEN "upgrade" ELSE "same"

\* The calls that neither an update check nor a recovery goes beyond.
ReadOnlyCalls == {"fetch release", "json", "ldd --version", "clangd --version"}

\* C1: when prepare has returned for a configured path that is absolute but
\* not accessible, or relative and not on the search path, the status has
\* clangdPath = null and the background task is recover, never checkUpdates;
\* when the release request and the asset choice succeed, that task calls
\* promptInstall once, at its end, and no other hook.
C1_NotFoundStartsRecovery ==
  (prep.pc = "returned" /\ NotFound(prep.path)) =>
    /\ prep.status = Null
    /\ Background.kind = "recover"
    /\ ChoiceSucceeds(Background) =>
         Background.events = IF Background.pc = "done" THEN <<"promptInstall">> ELSE <<>>

C1_Witness ==
  /\ prep.pc = "returned"
  /\ prep.path = MissingClangd
  /\ prep.status = Null
  /\ Background.kind = "recover"
  /\ Background.pc = "done"
  /\ Background.events = <<"promptInstall">>

\* C2: when prepare has returned for a configured path that is found, the
\* status carries the resolved path; with checkUpdate false the background
\* task is finished at once, having issued no call and called no hook; with
\* checkUpdate true it is checkUpdates with requested = false.
C2_FoundReturnsResolvedPath ==
  (prep.pc = "returned" /\ ~NotFound(prep.path)) =>
    /\ prep.status = Some(Resolved(prep.path))
    /\ ~prep.checkUpdate =>
         /\ Background.kind = "noop"
         /\ Background.pc = "done"
         /\ Background.calls = <<>>
         /\ Background.events = <<>>
    /\ prep.checkUpdate =>
         /\ Background.kind = "checkUpdates"
         /\ ~Background.requested

C2_Witness ==
  /\ prep.pc = "returned"
  /\ prep.path = <<"clangd">>
  /\ prep.status = Some(SystemClangd)
  /\ ~prep.checkUpdate
  /\ Background.kind = "noop"
  /\ Background.pc = "done"

\* C3: the step in which prepare returns leaves the background task, when it
\* is a recovery or an update check, with its release request sent and not
\* answered: nothing but the request was issued, no hook was called, the
\* task has not ended.
C3_PrepareReturnsBeforeFetchEnds ==
  [][(prep.pc = "lookup" /\ prep'.pc = "returned") =>
       (tasks'["background"].kind \in {"recover", "checkUpdates"} =>
          /\ tasks'["background"].pc = "fetch"
          /\ tasks'["background"].calls = <<"fetch release">>
          /\ tasks'["background"].events = <<>>
          /\ tasks'["background"].settled = "pending")]_vars

C3_Witness ==
  /\ prep.pc = "returned"
  /\ prep.status = Some(OldClangd)
  /\ Background.kind = "checkUpdates"
  /\ Background.pc = "fetch"
  /\ Background.release = NoRelease

\* C4: a checkUpdates with requested = false calls no hook but promptUpdate,
\* and calls none at all when it has ended with a failure of latestRelease,
\* chooseAsset or Version.upgrade, or with no upgrade available.
C4_UnrequestedCheckIsSilent ==
  \A t \in {"background", "checkUpdates"} :
    (tasks[t].kind = "checkUpdates" /\ ~tasks[t].requested) =>
      /\ tasks[t].events \in {<<>>, <<"promptUpdate">>}
      /\ (tasks[t].pc = "done" /\ CheckOutcome(tasks[t]) # "upgrade") =>
           tasks[t].events = <<>>

C4_Witness ==
  /\ Background.kind = "checkUpdates"
  /\ ~Background.requested
  /\ Background.pc = "done"
  /\ Background.upgrade = "no"
  /\ Background.events = <<>>

\* C5: a checkUpdates with requested = true has called no hook before its
\* end and exactly one at its end: error when latestRelease, chooseAsset or
\* Version.upgrade failed, info when no upgrade is available, promptUpdate
\* when one is.  It issues no call of the install, writes no file and leaves
\* ui.clangdPath as it was.
C5_RequestedCheckCallsOneHook ==
  (Check.kind = "checkUpdates" /\ Check.requested) =>
    /\ Check.pc # "done" => Check.events = <<>>
    /\ Check.pc = "done" =>
         Check.events = <<CASE CheckOutcome(Check) = "failed" -> "error"
                            [] CheckOutcome(Check) = "same" -> "info"
                            [] OTHER -> "promptUpdate">>
    /\ Range(Check.calls) \subseteq ReadOnlyCalls
    /\ fs = StartStorage(cleanupPath)
    /\ clangdPath = Check.before

C5_Witness ==
  /\ Check.kind = "checkUpdates"
  /\ Check.requested
  /\ Check.pc = "done"
  /\ Check.before = NewClangd
  /\ Check.events = <<"info">>

Universe ==
  {SemVer(M, m, p, pre) : M \in 0..(MaxComp + 1), m \in 0..(MaxComp + 1),
                          p \in 0..(MaxComp + 1), pre \in {<<>>} \cup PreIds}

\* The versions a version text stands for: a full version is itself; a
\* partial one is every release (no prerelease) that agrees with it on the
\* components it names.
Denotes(t, v) ==
  IF Len(t.nums) = 3
  THEN v = SemVer(t.nums[1], t.nums[2], t.nums[3], t.pre)
  ELSE /\ v.prerelease = <<>>
       /\ Len(t.nums) >= 1 => v.major = t.nums[1]
       /\ Len(t.nums) >= 2 => v.minor = t.nums[2]

\* The least version of the released text is strictly greater than every
\* version of the installed text.
StrictlyNewer(new, old) ==
  LET news == {v \in Universe : Denotes(new, v)}
      olds == {v \in Universe : Denotes(old, v)}
      least == CHOOSE v \in news : \A u \in news : compare(v, u) <= 0
  IN \A u \in olds : compare(least, u) > 0

\* C6: when Version.upgrade returns for a released and an installed version
\* that both parse, its field upgrade is true exactly when the least version
\* of the released range is strictly greater than every version of the
\* installed range (so it is false for an installed version that equals,
\* exceeds or overlaps the released one).
C6_UpgradeIffStrictlyNewer ==
  (probe.done /\ probe.result.ok) =>
    probe.result.value.upgrade =
      StrictlyNewer(probe.result.value.new, probe.result.value.old)

\* Version.upgrade has reported an upgrade from "1" to the prerelease
\* "1.0.1-0", though "1" accepts 1.0.1, which is the greater version.
C6_Witness ==
  /\ probe.done
  /\ probe.result.ok
  /\ probe.result.value.new = VerText(<<1, 0, 1>>, NumericPre, FALSE)
  /\ probe.result.value.old = VerText(<<1>>, <<>>, FALSE)
  /\ probe.result.value.upgrade
  /\ Denotes(probe.result.value.old, SemVer(1, 0, 1, <<>>))
  /\ compare(SemVer(1, 0, 1, <<>>), SemVer(1, 0, 1, NumericPre)) > 0

\* The output has the marker, and what stands before its first occurrence
\* is, white space aside, the word Apple.
AppleLabelled(output) ==
  \E pos \in DOMAIN output :
    /\ output[pos].k = "marker"
    /\ \A j \in 1..(pos - 1) : output[j].k # "marker"
    /\ SelectSeq(SubSeq(output, 1, pos - 1), LAMBDA c : c.k # "ws") = <<Word("Apple")>>

\* C7: for an output whose marker is preceded by the label Apple, the
\* installed version is not computed: with a release whose version parses,
\* Version.upgrade throws "Cannot compare vendor's clangd version", which is
\* not the error of an output without marker; checkUpdates calls neither
\* info nor promptUpdate, and calls error exactly once when it was requested
\* (and nothing when it was not).
C7_AppleVersionIsNotCompared ==
  (probe.done /\ AppleLabelled(probe.output)) =>
    /\ ~probe.result.ok
    /\ probe.result.error # "Couldn't parse clangd --version output"
    /\ released(probe.release).ok =>
         probe.result.error = "Cannot compare vendor's clangd version"
    /\ probe.events = IF probe.requested THEN <<"error">> ELSE <<>>

C7_Witness ==
  /\ probe.done
  /\ probe.requested
  /\ AppleLabelled(probe.output)
  /\ Len(probe.output) > 3
  /\ probe.result.error = "Cannot compare vendor's clangd version"
  /\ probe.events = <<"error">>

(***************************************************************************)
(* Properties of the explicit install (specification SpecInstall).         *)
(***************************************************************************)
\* The entry of the binary in an archive, and where install() puts it.
BinaryEntry(id) ==
  LET files == ArchiveFiles(id)
  IN files[CHOOSE i \in DOMAIN files :
             /\ files[i][Len(files[i])] = clangdFilename
             /\ \A j \in 1..(i - 1) : files[j][Len(files[j])] # clangdFilename]

InstalledPath(tk) ==
  <<"/", "storage", "install", Spell(tk.release.tag_name)>> \o BinaryEntry(tk.body)

\* The calls of Install.download and of the extraction.
TransferCalls == {"fetch asset", "pipeline", "open", "extract", "chmod", "unlink"}

\* The run found nothing installed for the release, and its release request,
\* asset choice, download and extraction succeeded: the binary's chmod was
\* issued.
FreshAndExtracted(tk) ==
  /\ tk.kind = "installLatest"
  /\ "shouldReuse" \notin Range(tk.calls)
  /\ "chmod" \in Range(tk.calls)

\* What C9 says of a run: the hooks called, the binary on disk, and
\* ui.clangdPath.
InstalledAndReloaded(tk) ==
  /\ tk.events = <<"progress", "slow", "promptReload">>
  /\ InstalledPath(tk) \in DOMAIN fs
  /\ fs[InstalledPath(tk)].type = "file"
  /\ clangdPath = InstalledPath(tk)

\* C9 as stated: an installLatest that found nothing installed for the
\* release, and whose release request, asset choice, download and extraction
\* succeeded, has at its end called exactly progress, slow and promptReload,
\* the binary is where the archive's entry puts it under install/<tag>, and
\* ui.clangdPath is that path.
C9_AsStated ==
  (FreshAndExtracted(InstallRun) /\ InstallRun.pc = "done") =>
    InstalledAndReloaded(InstallRun)

\* C9: the same, for a run in which the chmod of the binary and the deletion
\* of the downloaded archive succeeded as well, that is, in which install()
\* returned.
C9_FreshInstallReloads ==
  (FreshAndExtracted(InstallRun) /\ InstallRun.pc = "done"
     /\ InstallRun.error = "none") =>
    InstalledAndReloaded(InstallRun)

C9_Witness ==
  /\ FreshAndExtracted(InstallRun)
  /\ InstallRun.pc = "done"
  /\ InstallRun.error = "none"
  /\ machine.platform = "win32"
  /\ InstallRun.events = <<"progress", "slow", "promptReload">>
  /\ clangdPath = <<"/", "storage", "install", "10.0", "fake-clangd-10", "clangd.exe">>

\* C10: an installLatest that has failed has not called promptReload and
\* has left ui.clangdPath as it was; ui.clangdPath differs from what it was
\* at the start of a run only when the run has ended without failure; a run
\* that failed for want of an asset has issued no call of the download or
\* the extraction and has called showHelp and nothing else.
C10_FailedInstallKeepsPath ==
  InstallRun.kind = "installLatest" =>
    /\ InstallRun.error # "none" =>
         /\ clangdPath = InstallRun.before
         /\ "promptReload" \notin Range(InstallRun.events)
    /\ clangdPath # InstallRun.before =>
         /\ InstallRun.pc = "done"
         /\ InstallRun.error = "none"
    /\ InstallRun.error = noBinary(machine.platform, machine.arch) =>
         /\ Range(InstallRun.calls) \cap TransferCalls = {}
         /\ InstallRun.events = <<"showHelp">>

C10_Witness ==
  /\ InstallRun.kind = "installLatest"
  /\ InstallRun.pc = "done"
  /\ InstallRun.error = "extract failed"
  /\ InstallRun.events = <<"progress", "slow", "showHelp">>
  /\ clangdPath = InstallRun.before

\* How often a hook was called, and the last hook called.
Count(events, hook) == Cardinality({i \in DOMAIN events : events[i] = hook})
LastOf(events) == IF events = <<>> THEN "none" ELSE events[Len(events)]

\* The hooks that put a question to the user and are no report of the end
\* of the run.
QuestionHooks == {"shouldReuse", "promptInstall", "promptUpdate"}

\* install/<tag> of the run's release, and what is at and under it in a
\* file system.
InstallRoot(tk) == extractRoot(tk.release)
Tree(f, root) == [p \in {q \in DOMAIN f : Under(root, q)} |-> f[p]]
FilesOf(f, root) == {p \in DOMAIN f : Under(root, p) /\ f[p].type = "file"}

BinariesFound(tk) ==
  {p \in FilesOf(tk.storage, InstallRoot(tk)) : basename(p) = clangdFilename}

\* A run that was told to reuse has sent no download request, extracted
\* nothing and removed nothing, has shown neither the progress nor the slow
\* indication, and install/<tag> is as it was at the start of the run.
ReuseLeavesTree(tk) ==
  /\ Range(tk.calls) \cap (TransferCalls \cup {"rimraf"}) = {}
  /\ Range(tk.events) \cap {"progress", "slow"} = {}
  /\ Tree(fs, InstallRoot(tk)) = Tree(tk.storage, InstallRoot(tk))

\* The run has returned one of the binaries that were there.
ReuseReturnsBinary(tk) ==
  /\ tk.pc = "done"
  /\ tk.error = "none"
  /\ tk.events = <<"shouldReuse", "promptReload">>
  /\ clangdPath \in BinariesFound(tk)

\* C12 as stated: an install that found files under install/<tag> and was
\* told to reuse them downloads, extracts and changes nothing, returns the
\* path of a file of the binary's name in the existing tree, the events are
\* exactly shouldReuse and promptReload, and ui.clangdPath is that path.
C12_AsStated ==
  InstallRun.reuse = "true" =>
    ReuseLeavesTree(InstallRun) /\ ReuseReturnsBinary(InstallRun)

\* C12: an install that found files under install/<tag> and was told to
\* reuse them downloads, extracts and changes nothing; when a file of the
\* binary's name is among them, its path is returned, the events are exactly
\* shouldReuse and promptReload, and ui.clangdPath is that path; when none
\* is, the install fails, the events are exactly shouldReuse and showHelp,
\* and ui.clangdPath is as it was.
C12_ReuseKeepsExistingInstall ==
  InstallRun.reuse = "true" =>
    /\ ReuseLeavesTree(InstallRun)
    /\ IF BinariesFound(InstallRun) # {}
       THEN ReuseReturnsBinary(InstallRun)
       ELSE /\ InstallRun.pc = "done"
            /\ InstallRun.error = "Didn't find clangd in the install"
            /\ InstallRun.events = <<"shouldReuse", "showHelp">>
            /\ clangdPath = InstallRun.before

C12_Witness ==
  /\ InstallRun.reuse = "true"
  /\ InstallRun.run = 1
  /\ InstallRun.storage = writeFile(EmptyStorage, PriorClangd, "prior")
  /\ InstallRun.events = <<"shouldReuse", "promptReload">>
  /\ clangdPath = PriorClangd
  /\ fs = mkdirp(InstallRun.storage, downloadDir)

\* install/<tag> as the extraction of an archive into an empty place makes
\* it: the files of the archive and the directories on their paths.
ExtractedTree(root, id) ==
  Tree(extractFiles(EmptyStorage, root, ArchiveFiles(id), id), root)

\* Nothing is at or under the path.
Absent(f, root) == \A p \in DOMAIN f : ~Under(root, p)

\* C13: in an install that was told not to reuse, the download request is
\* not sent while the removal of the old directory is under way, and from
\* the request on to the end of the extraction nothing is left at or under
\* install/<tag>; when the run has ended without failure, install/<tag> is
\* exactly the extraction of the downloaded archive, and the events are
\* exactly shouldReuse, progress, slow and promptReload.
C13_ReplaceRemovesOldInstallFirst ==
  InstallRun.reuse = "false" =>
    /\ "rimraf" \in Range(InstallRun.calls)
    /\ InstallRun.pc = "rimraf" =>
         Range(InstallRun.calls) \cap TransferCalls = {}
    /\ InstallRun.pc \in {"dlFetch", "dlStream", "open", "extract"} =>
         Absent(fs, InstallRoot(InstallRun))
    /\ "fetch asset" \in Range(InstallRun.calls) =>
         \A p \in FilesOf(fs, InstallRoot(InstallRun)) : fs[p].data = InstallRun.body
    /\ (InstallRun.pc = "done" /\ InstallRun.error = "none") =>
         /\ Tree(fs, InstallRoot(InstallRun)) =
              ExtractedTree(InstallRoot(InstallRun), InstallRun.body)
         /\ InstallRun.events = <<"shouldReuse", "progress", "slow", "promptReload">>

C13_Witness ==
  /\ InstallRun.reuse = "false"
  /\ InstallRun.pc = "done"
  /\ InstallRun.error = "none"
  /\ PriorClangd \in DOMAIN InstallRun.storage
  /\ PriorClangd \notin DOMAIN fs
  /\ InstallRun.events = <<"shouldReuse", "progress", "slow", "promptReload">>
  /\ clangdPath = join(PriorRoot, <<"fake-clangd-10", "clangd">>)

\* C14: when the reuse question is dismissed, the abort controller of the
\* run is signalled and install fails with "already installed": the run has
\* ended, install/<tag> is exactly as it was at its start, no removal, no
\* download and no extraction was issued, and ui.clangdPath is as it was.
C14_DismissedQuestionAborts ==
  InstallRun.reuse = "undefined" =>
    /\ InstallRun.pc = "done"
    /\ InstallRun.aborted
    /\ InstallRun.error = "already installed"
    /\ Tree(fs, InstallRoot(InstallRun)) = Tree(InstallRun.storage, InstallRoot(InstallRun))
    /\ Range(InstallRun.calls) \cap (TransferCalls \cup {"rimraf"}) = {}
    /\ Range(InstallRun.events) \cap {"progress", "slow", "promptReload"} = {}
    /\ clangdPath = InstallRun.before

C14_Witness ==
  /\ InstallRun.reuse = "undefined"
  /\ InstallRun.pc = "done"
  /\ InstallRun.error = "already installed"
  /\ PriorClangd \in DOMAIN fs
  /\ fs[PriorClangd] = File("prior")
  /\ clangdPath = OldClangd

\* The run follows an install that returned a binary under install/<tag> of
\* the same release, the binary is still there, and the run was told to
\* reuse.
ReusesLastInstall(tk) ==
  /\ tk.run >= 2
  /\ tk.reuse = "true"
  /\ tk.before \in BinariesFound(tk)

\* C15: an install of a release whose last install returned a binary under
\* install/<tag>, when told to reuse, returns the same path as that install
\* did and sends no download request.
C15_RoundTripReturnsSamePath ==
  ReusesLastInstall(InstallRun) =>
    /\ InstallRun.pc = "done"
    /\ InstallRun.error = "none"
    /\ clangdPath = InstallRun.before
    /\ "fetch asset" \notin Range(InstallRun.calls)

\* The archive has two files of the binary's name.  The first install
\* returned the one that comes first in the archive; the second install,
\* told to reuse, has returned the other, which came first in the listing.
C15_Witness ==
  /\ ReusesLastInstall(InstallRun)
  /\ InstallRun.pc = "done"
  /\ InstallRun.error = "none"
  /\ Tree(fs, PriorRoot) = ExtractedTree(PriorRoot, "tools-zip")
  /\ InstallRun.before = join(PriorRoot, <<"fake-clangd-10", "tools", "clangd">>)
  /\ clangdPath = join(PriorRoot, <<"fake-clangd-10", "bin", "clangd">>)
  /\ InstallRun.events = <<"shouldReuse", "promptReload">>

\* install() was called in the run and has ended, with a path or an error.
InstallEnded(tk) ==
  /\ tk.kind = "installLatest"
  /\ tk.pc = "done"
  /\ "mkdir" \in Range(tk.calls)

\* C16: once install() has ended, with a path or with an error, the staging
\* file download/<asset name> of the run does not exist.
C16_StagingFileIsGone ==
  InstallEnded(InstallRun) => zipFile(InstallRun.asset) \notin DOMAIN fs

\* The download succeeded and the archive has no binary for the platform:
\* install() has failed, no deletion is under way, and the archive is
\* still in the download directory, whole.
C16_Witness ==
  /\ InstallEnded(InstallRun)
  /\ InstallRun.error = "Didn't find clangd in the archive"
  /\ unlinking = {}
  /\ zipFile(InstallRun.asset) \in DOMAIN fs
  /\ fs[zipFile(InstallRun.asset)] = File("docs-zip")

\* The errors with which Install.download fails.
DownloadErrors ==
  {"Can't fetch asset", "network error", "The operation was aborted", "download failed"}

\* C17: in every state of a sequence of installs, install/<tag> of the
\* running or last install is as that install found it, or absent, or
\* exactly the extraction of an archive, or its removal is under way (or
\* was, and failed); and an install whose download failed has left no file
\* under it.
C17_TagDirectoryIsWhole ==
  (InstallRun.kind = "installLatest" /\ InstallRun.release \in Releases) =>
    LET root == InstallRoot(InstallRun)
    IN /\ \/ Tree(fs, root) = Tree(InstallRun.storage, root)
          \/ Absent(fs, root)
          \/ \E id \in ArchiveIds : Tree(fs, root) = ExtractedTree(root, id)
          \/ InstallRun.pc = "rimraf"
          \/ InstallRun.error = "rimraf failed"
       /\ InstallRun.error \in DownloadErrors => FilesOf(fs, root) = {}

\* The extraction failed after the first file of the archive was written:
\* install() has failed and install/<tag>, which held no file before, holds
\* that file and not the binary.
C17_Witness ==
  /\ InstallEnded(InstallRun)
  /\ InstallRun.error = "extract failed"
  /\ InstallRun.body = "clangd-zip"
  /\ FilesOf(InstallRun.storage, PriorRoot) = {}
  /\ FilesOf(fs, PriorRoot) = {join(PriorRoot, <<"fake-clangd-10", "lib", "stddef.h">>)}

\* The operations of install() in the order of its statements; the reuse
\* question and the removal are left out when nothing was installed.
InstallSteps(asked) ==
  <<"mkdir", "mkdir", "readdirp">>
    \o (IF asked THEN <<"shouldReuse", "rimraf">> ELSE <<>>)
    \o <<"fetch asset", "pipeline", "open", "extract", "chmod", "unlink">>

\* The operations of install() that a run has issued, in order.
InstallOps == TransferCalls \cup {"mkdir", "readdirp", "shouldReuse", "rimraf"}
InstallCalls(tk) == SelectSeq(tk.calls, LAMBDA c : c \in InstallOps)

\* What has happened before each operation of a run that has come to it:
\* the operations issued are an initial part of the statements of install(),
\* each once; the archive is extracted only when an entry of the binary's
\* name was found in it; the binary's mode is changed, and the archive
\* deleted, only when every file of the archive is on disk.
StepsInOrder(tk, f) ==
  /\ IsPrefix(InstallCalls(tk), InstallSteps("shouldReuse" \in Range(tk.calls)))
  /\ "extract" \in Range(tk.calls) =>
       /\ tk.executable \in Range(ArchiveFiles(tk.body))
       /\ basename(tk.executable) = clangdFilename
  /\ tk.pc \in {"chmod", "unlink"} =>
       \A e \in Range(ArchiveFiles(tk.body)) :
         /\ join(InstallRoot(tk), e) \in DOMAIN f
         /\ f[join(InstallRoot(tk), e)] = File(tk.body)

\* C18: the steps of an install are issued one after the other in the order
\* of its statements, each at most once: the decision and the removal
\* before the download, the extraction after the binary was found in the
\* archive, chmod and the deletion of the archive after the extraction; and
\* in the step that opens the archive the download has ended and the file
\* is fully written.
C18_StepsAreSequential ==
  [][/\ StepsInOrder(tasks'["installLatest"], fs')
     /\ (InstallRun.pc # "open" /\ tasks'["installLatest"].pc = "open") =>
          /\ InstallRun.pc = "dlStream"
          /\ zipFile(InstallRun.asset) \in DOMAIN fs'
          /\ fs'[zipFile(InstallRun.asset)] = File(InstallRun.body)]_vars

C18_Witness ==
  /\ InstallRun.pc = "done"
  /\ InstallRun.error = "none"
  /\ InstallCalls(InstallRun) = InstallSteps(TRUE)

\* The download of the run delivered an archive with no entry of the
\* binary's name, and the attempt to open it has ended.
OpenedWithoutBinary(tk) ==
  /\ tk.kind = "installLatest"
  /\ "open" \in Range(tk.calls)
  /\ tk.pc # "open"
  /\ tk.body \in ArchiveIds \ {"corrupt"}
  /\ \A e \in Range(ArchiveFiles(tk.body)) : basename(e) # clangdFilename

\* The install has failed with nothing extracted: the slow indication was
\* not shown, no extraction was issued, and install/<tag> is as the run
\* found it, or absent when the run was told to replace it; the error is
\* that of the missing binary when the archive is still on disk.
FailedBeforeExtraction(tk) ==
  /\ tk.pc = "done"
  /\ tk.error # "none"
  /\ Range(tk.calls) \cap {"extract", "chmod", "unlink"} = {}
  /\ "slow" \notin Range(tk.events)
  /\ IF tk.reuse = "false" THEN Absent(fs, InstallRoot(tk))
     ELSE Tree(fs, InstallRoot(tk)) = Tree(tk.storage, InstallRoot(tk))
  /\ zipFile(tk.asset) \in DOMAIN fs => tk.error = "Didn't find clangd in the archive"

Downloading(tk) == tk.kind = "installLatest" /\ tk.pc \in {"dlFetch", "dlStream"}

\* C20: from a state in which the abort controller was signalled during the
\* download, the next step of the run ends it: the download fails, install
\* fails with it, no hook is called (neither showHelp nor promptReload)
\* and ui.clangdPath stays what it was.  A run whose download has failed
\* with the controller not signalled has called showHelp exactly once, as
\* its last hook.
C20_CancelledDownloadIsSilent ==
  [][LET now == InstallRun
         next == tasks'["installLatest"]
     IN /\ (Downloading(now) /\ now.aborted /\ next # now) =>
             /\ next.pc = "done"
             /\ next.error \in DownloadErrors
             /\ next.events = now.events
             /\ Range(next.events) \cap {"showHelp", "promptReload"} = {}
             /\ clangdPath' = now.before
        /\ (Downloading(now) /\ ~now.aborted /\ next.pc = "done") =>
             /\ next.error \in DownloadErrors
             /\ next.events = Append(now.events, "showHelp")
             /\ Count(next.events, "showHelp") = 1
             /\ clangdPath' = now.before]_vars

C20_Witness ==
  /\ InstallRun.pc = "done"
  /\ InstallRun.aborted
  /\ InstallRun.error = "download failed"
  /\ InstallRun.events = <<"progress">>
  /\ zipFile(InstallRun.asset) \in unlinking
  /\ clangdPath = OldClangd

\* C21: the step in which the transfer of the body fails ends the run with
\* the transfer's error and issues the deletion of download/<asset name>
\* without waiting for it: the file system is as before and the deletion
\* is under way.  The end of that deletion, with the file removed or not,
\* changes nothing of the run, whose error stays the transfer's.  The step
\* in which the request fails (no response, a response that is not ok or has
\* no body, an abort) ends the run with that error, creates no file and
\* issues no deletion.
C21_FailedTransferKeepsItsError ==
  [][LET now == InstallRun
         next == tasks'["installLatest"]
         dest == zipFile(now.asset)
     IN /\ (now.pc = "dlStream" /\ next.pc = "done") =>
             /\ next.error = "download failed"
             /\ unlinking' = unlinking \cup {dest}
             /\ fs' = fs
        /\ unlinking' \subseteq unlinking /\ unlinking' # unlinking =>
             /\ tasks' = tasks
             /\ fs' \in {fs} \cup {remove(fs, p) : p \in unlinking}
        /\ (now.pc = "dlFetch" /\ next.pc = "done") =>
             /\ next.error \in DownloadErrors \ {"download failed"}
             /\ fs' = fs
             /\ unlinking' = unlinking]_vars

\* The transfer has failed and the run has ended with its error, while the
\* partial file is still on disk and its deletion under way.
C21_Witness ==
  /\ InstallRun.pc = "done"
  /\ InstallRun.error = "download failed"
  /\ ~InstallRun.aborted
  /\ zipFile(InstallRun.asset) \in unlinking
  /\ zipFile(InstallRun.asset) \in DOMAIN fs
  /\ fs[zipFile(InstallRun.asset)] = File("partial")

(***************************************************************************)
(* Properties of the asset chooser (specification SpecAsset).              *)
(***************************************************************************)
\* The operating systems that have a keyword, and the pairs of operating
\* system and architecture for which an asset may be returned.
Keywords == [win32 |-> "windows", linux |-> "linux", darwin |-> "mac"]
Accepted(m) ==
  /\ m.platform \in DOMAIN Keywords
  /\ \/ m.arch = "x64"
     \/ m.platform = "win32"
     \/ m.platform = "darwin" /\ m.arch = "arm64"

\* The places in the release's list of the assets whose name holds
\* 'clangd-' followed by the keyword.
Matching(release, keyword) ==
  {i \in DOMAIN release.assets : Contains(release.assets[i].name, <<"clangd-", keyword>>)}

Incompatible == "The clangd release is not compatible with your system"

\* C22: when chooseAsset has ended on an accepted platform without
\* rejecting the system's glibc, it has returned the asset at the first
\* place of the release's list whose name holds 'clangd-<keyword>', when
\* there is one, and has failed with the message that names the platform
\* and the architecture when there is none.
C22_FirstMatchingAssetIsChosen ==
  (probe.done /\ Accepted(machine) /\ probe.result.error # Incompatible) =>
    LET matching == Matching(probe.release, Keywords[machine.platform])
    IN IF matching # {}
       THEN /\ probe.result.ok
            /\ probe.result.value =
                 probe.release.assets[CHOOSE i \in matching : \A j \in matching : i <= j]
       ELSE /\ ~probe.result.ok
            /\ probe.result.error = noBinary(machine.platform, machine.arch)

\* The list holds an asset that names linux without the substring, then two
\* that hold it: the first of the two is returned.
C22_Witness ==
  /\ probe.done
  /\ machine.platform = "linux"
  /\ machine.arch = "x64"
  /\ Len(probe.release.assets) = 3
  /\ Matching(probe.release, "linux") = {2, 3}
  /\ probe.release.assets[1].name = <<"clangd_indexing_tools-", "linux", "-10.0.0.zip">>
  /\ probe.release.assets[2].name = <<"debug-", "clangd-", "linux", ".zip">>
  /\ probe.release.assets[3].name = <<"clangd-", "linux", "-10.0.0.zip">>
  /\ probe.result.ok
  /\ probe.result.value = probe.release.assets[2]

\* C23: chooseAsset returns an asset only for an operating system that has
\* a keyword and an architecture that is x64, or any on Windows, or arm64 on
\* macOS; for every other pair it fails, whatever the release holds.
C23_OnlyAcceptedMachinesGetAnAsset ==
  probe.done =>
    /\ probe.result.ok => Accepted(machine)
    /\ ~Accepted(machine) =>
         /\ ~probe.result.ok
         /\ probe.result.error \in {noBinary(machine.platform, machine.arch), Incompatible}

\* Linux on arm64, with a release that holds a Linux asset.
C23_Witness ==
  /\ probe.done
  /\ machine.platform = "linux"
  /\ machine.arch = "arm64"
  /\ Matching(probe.release, "linux") # {}
  /\ ~probe.result.ok
  /\ probe.result.error = "No clangd binary available for linux/arm64"

(***************************************************************************)
(* The glibc gate, through installLatest (specification SpecInstall).      *)
(***************************************************************************)
\* The first line of the probe's output matches the pattern, its number is
\* a version of two or three components, and that version is below 2.18.
GlibcTooOld(output) ==
  LET match == MatchLdd(FirstLine(output))
  IN /\ ~match.isNull
     /\ Len(match.value.nums) \in {2, 3}
     /\ \/ match.value.nums[1] < 2
        \/ match.value.nums[1] = 2 /\ match.value.nums[2] < 18

\* The run is on Linux and the glibc probe has returned.
Probed(tk) ==
  /\ tk.kind = "installLatest"
  /\ machine.platform = "linux"
  /\ "ldd --version" \in Range(tk.calls)
  /\ tk.pc # "ldd"

\* The release is rejected exactly when the probe shows a glibc below 2.18,
\* and then before any operation of install(), with showHelp as the only
\* hook called.
GateRejectsOldGlibcOnly(tk) ==
  /\ tk.error = Incompatible <=> GlibcTooOld(machine.ldd)
  /\ GlibcTooOld(machine.ldd) =>
       /\ tk.pc = "done"
       /\ tk.events = <<"showHelp">>
       /\ Range(tk.calls) \cap InstallOps = {}

\* C24 as stated: on Linux the release is rejected, before any download,
\* exactly when the first line of the probe matches and the version it
\* shows is older than 2.18; the run of a rejected release calls exactly
\* showHelp, every other run exactly progress, slow and promptReload.
C24_AsStated ==
  Probed(InstallRun) =>
    /\ GateRejectsOldGlibcOnly(InstallRun)
    /\ (~GlibcTooOld(machine.ldd) /\ InstallRun.pc = "done") =>
         InstallRun.events = <<"progress", "slow", "promptReload">>

\* C24: the same, where the runs that call exactly progress, slow and
\* promptReload are those of a release that was not rejected, that found
\* nothing installed for the release and ended without failure.
C24_GlibcGate ==
  Probed(InstallRun) =>
    /\ GateRejectsOldGlibcOnly(InstallRun)
    /\ (~GlibcTooOld(machine.ldd) /\ InstallRun.pc = "done"
          /\ InstallRun.error = "none" /\ InstallRun.reuse = "unasked") =>
         InstallRun.events = <<"progress", "slow", "promptReload">>

\* The number of the first line is no version: the probe is inconclusive
\* and the install has gone through.
C24_Witness ==
  /\ Probed(InstallRun)
  /\ machine.ldd = unparsedLdd
  /\ ~GlibcTooOld(machine.ldd)
  /\ ~MatchLdd(FirstLine(machine.ldd)).isNull
  /\ InstallRun.pc = "done"
  /\ InstallRun.error = "none"
  /\ InstallRun.events = <<"progress", "slow", "promptReload">>

(***************************************************************************)
(* The released version (specification SpecVersion).                       *)
(***************************************************************************)
\* C25: when Version.upgrade has returned, the released version it reports
\* is the release's tag whenever the tag is a valid loose range, also when
\* the name is one too and differs, and the name only when the tag is none
\* and the name is one; when neither is a valid range Version.upgrade throws
\* the error of the invalid range, and checkUpdates calls error when it was
\* requested and nothing when it was not.
C25_ReleasedPrefersTag ==
  probe.done =>
    LET tag == probe.release.tag_name
        name == probe.release.name
    IN /\ probe.result.ok =>
            probe.result.value.new =
              (IF validRange(tag) THEN tag ELSE name)
       /\ (probe.result.ok /\ probe.result.value.new = name /\ name # tag) =>
            ~validRange(tag) /\ validRange(name)
       /\ (~validRange(tag) /\ ~validRange(name)) =>
            /\ ~probe.result.ok
            /\ probe.result.error = "Invalid SemVer Range"
            /\ probe.events = IF probe.requested THEN <<"error">> ELSE <<>>

\* Tag and name are both versions, and differ: the tag is reported.
C25_Witness ==
  /\ probe.done
  /\ probe.result.ok
  /\ probe.release.tag_name = Full(1, 0, 0)
  /\ probe.release.name = VerText(<<1, 1>>, <<>>, FALSE)
  /\ validRange(probe.release.name)
  /\ probe.result.value.new = Full(1, 0, 0)

(***************************************************************************)
(* Properties of ui.cleanupPath.                                           *)
(***************************************************************************)
\* An installLatest has ended with promptReload and ui.clangdPath is no
\* longer the path that was configured when it was called.
ReplacedBinary(tk) ==
  /\ tk.kind = "installLatest"
  /\ tk.pc = "done"
  /\ LastOf(tk.events) = "promptReload"
  /\ clangdPath # tk.before

\* C26: after an installLatest that has succeeded and has replaced the
\* configured binary with the one it installed, ui.cleanupPath is the path
\* that was configured before the install.
C26_SupersededInstallIsRemembered ==
  ReplacedBinary(InstallRun) => cleanupPath = Some(InstallRun.before)

\* The first install over an empty storage has replaced the configured
\* binary, and ui.cleanupPath is still unset.
C26_Witness ==
  /\ ReplacedBinary(InstallRun)
  /\ InstallRun.run = 1
  /\ InstallRun.before = OldClangd
  /\ InstallRun.events = <<"progress", "slow", "promptReload">>
  /\ cleanupPath = Null

\* The startup flow over a usable configured binary has ended: prepare has
\* returned and its background task is done, or was not started.
StartupEnded ==
  /\ prep.pc = "returned"
  /\ ~NotFound(prep.path)
  /\ tasks["background"].pc \in {"idle", "done"}

\* C27: when the startup flow over a usable configured binary has ended and
\* ui.cleanupPath named an old install directory of the storage, promptDelete
\* is the one hook that was called and ui.cleanupPath is unset.
C27_StartupAsksToDeleteOnce ==
  (StartupEnded /\ SupersededClangd \in DOMAIN fs
     /\ ~Under(SupersededClangd, Resolved(prep.path))) =>
    /\ tasks["background"].events = <<"promptDelete">>
    /\ cleanupPath = Null

\* The startup flow has ended without a hook called, and ui.cleanupPath
\* still names the old install directory, which is still there.
C27_Witness ==
  /\ StartupEnded
  /\ cleanupPath = Some(SupersededClangd)
  /\ SupersededClangd \in DOMAIN fs
  /\ fs[SupersededClangd] = Dir
  /\ ~Under(SupersededClangd, Resolved(prep.path))
  /\ tasks["background"].events = <<>>

(***************************************************************************)
(* Properties of the reuse question.                                       *)
(***************************************************************************)
\* install() has its listing of install/<tag>: the directories were created
\* and readdirp has returned.
Listed(tk) ==
  /\ tk.kind = "installLatest"
  /\ "readdirp" \in Range(tk.calls)
  /\ tk.pc # "readdirp"

\* The operation install() issued right after the listing.
AfterListing(tk) ==
  LET i == FirstIndex(tk.calls, LAMBDA c : c = "readdirp")
  IN IF i = 0 \/ i = Len(tk.calls) THEN "none" ELSE tk.calls[i + 1]

\* What was at or below install/<tag>, the directory itself left out, when
\* the run started.
EntriesAtStart(tk) ==
  {p \in DOMAIN tk.storage : Under(InstallRoot(tk), p) /\ p # InstallRoot(tk)}

\* C28 as stated: an install that has its listing asks shouldReuse exactly
\* when install/<tag> held at least one entry, file or directory, when the
\* run started.
C28_AsStated ==
  Listed(InstallRun) =>
    ("shouldReuse" \in Range(InstallRun.calls) <=> EntriesAtStart(InstallRun) # {})

\* C28: a run asks shouldReuse at most once, and never before install() has
\* its listing of install/<tag>; an install that has its listing has asked
\* exactly when install/<tag> held at least one file, at any depth, when the
\* run started; when install/<tag> was absent or held directories only, the
\* operation that follows the listing is the download request, with progress
\* as the first hook called.
C28_ReuseIsAskedOverFiles ==
  InstallRun.kind = "installLatest" =>
    /\ Count(InstallRun.events, "shouldReuse") <= 1
    /\ Count(InstallRun.calls, "shouldReuse") = Count(InstallRun.events, "shouldReuse")
    /\ ~Listed(InstallRun) => "shouldReuse" \notin Range(InstallRun.calls)
    /\ Listed(InstallRun) =>
         IF FilesOf(InstallRun.storage, InstallRoot(InstallRun)) # {}
         THEN /\ AfterListing(InstallRun) = "shouldReuse"
              /\ InstallRun.events[1] = "shouldReuse"
         ELSE /\ "shouldReuse" \notin Range(InstallRun.calls)
              /\ AfterListing(InstallRun) = "fetch asset"
              /\ InstallRun.events[1] = "progress"

\* Over an install/<tag> that holds one empty directory, a run has sent the
\* download request without having asked.
C28_Witness ==
  /\ Listed(InstallRun)
  /\ InstallRun.storage = mkdirp(EmptyStorage, join(PriorRoot, <<"weird-dir">>))
  /\ InstallRoot(InstallRun) = PriorRoot
  /\ EntriesAtStart(InstallRun) # {}
  /\ AfterListing(InstallRun) = "fetch asset"
  /\ "shouldReuse" \notin Range(InstallRun.events)

\* C29: an install that was told to reuse a tree in which no file has the
\* binary's name has failed with the error of the missing binary: no download
\* request was sent and nothing removed, install/<tag> is as it was when the
\* run started, ui.clangdPath is what it was, and the hooks called are
\* shouldReuse and then showHelp.
C29_ReuseWithoutBinaryFails ==
  (InstallRun.reuse = "true" /\ BinariesFound(InstallRun) = {}) =>
    /\ InstallRun.pc = "done"
    /\ InstallRun.settled = "fulfilled"
    /\ InstallRun.error = "Didn't find clangd in the install"
    /\ InstallRun.events = <<"shouldReuse", "showHelp">>
    /\ LastOf(InstallRun.calls) = "shouldReuse"
    /\ Tree(fs, InstallRoot(InstallRun)) = Tree(InstallRun.storage, InstallRoot(InstallRun))
    /\ clangdPath = InstallRun.before

\* Told to reuse a tree that holds a README only, the run has failed.
C29_Witness ==
  /\ InstallRun.reuse = "true"
  /\ BinariesFound(InstallRun) = {}
  /\ FilesOf(InstallRun.storage, InstallRoot(InstallRun)) = {join(PriorRoot, <<"README">>)}
  /\ InstallRun.pc = "done"
  /\ InstallRun.events = <<"shouldReuse", "showHelp">>

(***************************************************************************)
(* The frame of an install.                                                *)
(***************************************************************************)
\* The path is created, removed or rewritten by the step.
Touched(p) ==
  \/ p \in DOMAIN fs /\ p \notin DOMAIN fs'
  \/ p \notin DOMAIN fs /\ p \in DOMAIN fs'
  \/ p \in DOMAIN fs /\ p \in DOMAIN fs' /\ fs[p] # fs'[p]

\* C30: whatever a step touches in the storage is at or below install/<tag>
\* of the release being installed, or is the staging file
\* download/<asset name> of its asset, or is the install or the download
\* directory, created when missing, or is a staging file whose deletion an
\* earlier failed download left pending; nothing at or below install/<tag'>
\* of another tag and nothing else of the storage is touched.
C30_OtherTagsAreUntouched ==
  [][\A p \in DOMAIN fs \cup DOMAIN fs' :
       Touched(p) =>
         \/ Under(extractRoot(tasks'["installLatest"].release), p)
         \/ p = zipFile(tasks'["installLatest"].asset)
         \/ /\ p \in {installDir, downloadDir}
            /\ p \notin DOMAIN fs
            /\ fs'[p] = Dir
         \/ /\ p \in unlinking
            /\ Under(downloadDir, p)
            /\ p \notin DOMAIN fs'
            /\ tasks' = tasks]_vars

\* A release tagged "snapshot" was installed over a storage that held an
\* install of 10.0: install/snapshot is the extracted archive and
\* install/10.0 is what it was.
C30_Witness ==
  /\ InstallRun.pc = "done"
  /\ InstallRun.release = SnapshotRelease
  /\ LastOf(InstallRun.events) = "promptReload"
  /\ PriorClangd \in DOMAIN InstallRun.storage
  /\ FilesOf(fs, InstallRoot(InstallRun)) # {}
  /\ InstallRoot(InstallRun) # PriorRoot
  /\ Tree(fs, PriorRoot) = Tree(InstallRun.storage, PriorRoot)

(***************************************************************************)
(* Properties of a cancellation that comes late.                           *)
(***************************************************************************)
\* The abort controller of the run was signalled, and the download had
\* completed or completed all the same: the archive was opened.
CancelledAfterDownload(tk) ==
  /\ tk.kind = "installLatest"
  /\ tk.aborted
  /\ "open" \in Range(tk.calls)

\* C31: in a run whose abort controller was signalled after the download
\* had completed, no step fails with the error of an abort, and when every
\* step after the download has succeeded the run has extracted every file of
\* the archive, deleted download/<asset name>, set ui.clangdPath to the
\* extracted binary and called promptReload as its last hook, and has not
\* called showHelp.
C31_LateCancelStillInstalls ==
  CancelledAfterDownload(InstallRun) =>
    /\ InstallRun.error \notin (DownloadErrors \cup {"already installed"})
    /\ (InstallRun.pc = "done" /\ InstallRun.error = "none") =>
         /\ SubSeq(InstallRun.calls, Len(InstallRun.calls) - 3, Len(InstallRun.calls))
              = <<"open", "extract", "chmod", "unlink">>
         /\ \A e \in Range(ArchiveFiles(InstallRun.body)) :
              join(InstallRoot(InstallRun), e) \in DOMAIN fs
         /\ zipFile(InstallRun.asset) \notin DOMAIN fs
         /\ clangdPath = join(InstallRoot(InstallRun), InstallRun.executable)
         /\ LastOf(InstallRun.events) = "promptReload"
         /\ "showHelp" \notin Range(InstallRun.events)

\* The cancel came after the download, and the install has ended with the
\* binary in place.
C31_Witness ==
  /\ CancelledAfterDownload(InstallRun)
  /\ InstallRun.pc = "done"
  /\ InstallRun.error = "none"
  /\ InstallRun.events = <<"progress", "slow", "promptReload">>
  /\ clangdPath \in DOMAIN fs
  /\ clangdPath # OldClangd

\* The failure of the run is the result of the abort signal: the prompt to
\* reuse was dismissed, or the download failed with the controller
\* signalled.
CausedByAbort(tk) ==
  \/ tk.error = "already installed"
  \/ tk.aborted /\ tk.error \in DownloadErrors

\* C32: an installLatest that has failed, and not as the result of the abort
\* signal, has called showHelp exactly once, as its last hook, also when the
\* controller was signalled after the download had completed.
C32_OnlyAbortsAreSilent ==
  (InstallRun.kind = "installLatest" /\ InstallRun.pc = "done"
     /\ InstallRun.error # "none" /\ ~CausedByAbort(InstallRun)) =>
    /\ Count(InstallRun.events, "showHelp") = 1
    /\ LastOf(InstallRun.events) = "showHelp"

\* The controller was signalled after the download had completed, the
\* extraction has failed, and the run has ended without a report.
C32_Witness ==
  /\ CancelledAfterDownload(InstallRun)
  /\ InstallRun.pc = "done"
  /\ InstallRun.error = "extract failed"
  /\ InstallRun.events = <<"progress", "slow">>
  /\ clangdPath = InstallRun.before

(***************************************************************************)
(* Properties of an update check beside an install (specification          *)
(* SpecRace).                                                              *)
(***************************************************************************)
\* C33: the binary whose version the background check of prepare has probed
\* is the one that was configured when the check started, which is the path
\* prepare returned in its InstallStatus, and the check that has ended has
\* called promptUpdate exactly when the release is an upgrade of that binary.
C33_CheckProbesBinaryOfItsStart ==
  (Background.kind = "checkUpdates" /\ "clangd --version" \in Range(Background.calls)) =>
    /\ Background.probed = Background.before
    /\ prep.status = Some(Background.probed)
    /\ Background.pc = "done" =>
         (Background.events = <<"promptUpdate">>
            <=> CheckOutcome(Background) = "upgrade")

\* The background check started over the old binary; an install ended while
\* the check was waiting, and the check has probed the installed binary and
\* has ended without a prompt.
C33_Witness ==
  /\ Background.kind = "checkUpdates"
  /\ Background.pc = "done"
  /\ Background.before = OldClangd
  /\ prep.status = Some(OldClangd)
  /\ Under(storagePath, Background.probed)
  /\ Background.probed = clangdPath
  /\ Background.upgrade = "no"
  /\ Background.events = <<>>
  /\ CheckOutcome(Background) = "upgrade"

(***************************************************************************)
(* Termination (specification SpecLive).                                   *)
(***************************************************************************)
\* C34: no run ever ends with its promise rejected, and every run that was
\* started comes to its end with its promise fulfilled.
C34_EveryRunEndsNormally ==
  \A t \in TaskIds :
    /\ [](tasks[t].settled # "rejected")
    /\ [](tasks[t].pc # "idle" =>
            <>(tasks[t].pc = "done" /\ tasks[t].settled = "fulfilled"))

\* An explicit check of a configured binary that cannot be started has
\* stopped at the version probe, its promise pending.
C34_Witness ==
  /\ Check.kind = "checkUpdates"
  /\ Check.pc = "killed"
  /\ Check.settled = "pending"
  /\ ~Spawns(fs, Check.probed)
  /\ Check.calls[Len(Check.calls)] = "clangd --version"
  /\ Check.events = <<>>

====
